---- MODULE Spec2Model ----
(***************************************************************************)
(* A model of notebook_environments.py: the five user commands (add,       *)
(* remove, purge, initialize, show) acting on the kernel directory of a    *)
(* notebook server.  A text is a sequence of one-character strings, a      *)
(* kernel.json file is a sequence of JSON tokens, and the filesystem is    *)
(* the kernel root, its children and the interpreter files the kernel      *)
(* descriptors refer to.                                                   *)
(***************************************************************************)
EXTENDS Naturals, Sequences, FiniteSets, TLC

(***************************************************************************)
(* Bounds of the model.                                                    *)
(***************************************************************************)
\* how many kernels the tests' setUp registers (test1, test2, ...)
FixtureSize == 2
\* how many invocations of the program a run makes
MaxOps == 2

(***************************************************************************)
(* errno values used by the program (Linux numbering).                     *)
(***************************************************************************)
EPERM == 1
ENOENT == 2
EACCES == 13
EEXIST == 17
ENOTDIR == 20
EISDIR == 21

(***************************************************************************)
(* Texts.                                                                  *)
(***************************************************************************)
Lower == {"a", "b", "c", "d", "e", "f", "g", "h", "i", "j", "k", "l", "m",
          "n", "o", "p", "q", "r", "s", "t", "u", "v", "w", "x", "y", "z"}
Upper == {"A", "B", "C", "D", "E", "F", "G", "H", "I", "J", "K", "L", "M",
          "N", "O", "P", "Q", "R", "S", "T", "U", "V", "W", "X", "Y", "Z"}
Digit == {"0", "1", "2", "3", "4", "5", "6", "7", "8", "9"}

RECURSIVE Concat(_)
Concat(parts) ==
    IF parts = <<>> THEN <<>> ELSE Head(parts) \o Concat(Tail(parts))

\* the index of the last "/" of a text, 0 when it has none
RECURSIVE LastSlash(_, _)
LastSlash(s, i) ==
    IF i = 0 THEN 0 ELSE IF s[i] = "/" THEN i ELSE LastSlash(s, i - 1)

\* os.path.basename
Basename(s) == SubSeq(s, LastSlash(s, Len(s)) + 1, Len(s))

\* os.path.join of two components (the second one relative or absolute)
Join(a, b) ==
    IF b # <<>> /\ b[1] = "/" THEN b
    ELSE IF a = <<>> \/ a[Len(a)] = "/" THEN a \o b
    ELSE a \o <<"/">> \o b

\* "{0}".format(n) for a one-digit number
DigitOf(n) ==
    CASE n = 0 -> "0" [] n = 1 -> "1" [] n = 2 -> "2" [] n = 3 -> "3"
      [] n = 4 -> "4" [] n = 5 -> "5" [] n = 6 -> "6" [] n = 7 -> "7"
      [] n = 8 -> "8" [] n = 9 -> "9"

(***************************************************************************)
(* JSON values, json.dumps(..., ensure_ascii=False, indent=2) and          *)
(* json.load.  Every value is a record of one shape: a tag, a text and a   *)
(* sequence of children (the members of an object are "pair" values).      *)
(***************************************************************************)
JStr(s) == [t |-> "str", s |-> s, items |-> <<>>]
JNull == [t |-> "null", s |-> <<>>, items |-> <<>>]
JNum(digits) == [t |-> "num", s |-> digits, items |-> <<>>]
JList(xs) == [t |-> "list", s |-> <<>>, items |-> xs]
JPair(k, v) == [t |-> "pair", s |-> k, items |-> <<v>>]
JObj(pairs) == [t |-> "obj", s |-> <<>>, items |-> pairs]

\* a token of a JSON text: punctuation, white space, a literal or a string
Tok(kind) == [tok |-> kind, raw |-> <<>>]
TokStr(raw) == [tok |-> "string", raw |-> raw]
TokWs(n) == [tok |-> "ws", raw |-> <<"\n">> \o [i \in 1..n |-> " "]]

EscapeChar(c) ==
    CASE c = "\"" -> <<"\\", "\"">>
      [] c = "\\" -> <<"\\", "\\">>
      [] c = "\n" -> <<"\\", "n">>
      [] OTHER -> <<c>>

RECURSIVE Escape(_)
Escape(s) == IF s = <<>> THEN <<>> ELSE EscapeChar(Head(s)) \o Escape(Tail(s))

\* the text of a string token read back; ok is FALSE for a bad escape or a
\* raw control character
RECURSIVE Unescape(_)
Unescape(raw) ==
    IF raw = <<>> THEN [ok |-> TRUE, s |-> <<>>]
    ELSE IF raw[1] = "\n" THEN [ok |-> FALSE, s |-> <<>>]
    ELSE IF raw[1] = "\\" THEN
        IF Len(raw) < 2 \/ raw[2] \notin {"\"", "\\", "n", "/"}
        THEN [ok |-> FALSE, s |-> <<>>]
        ELSE LET rest == Unescape(SubSeq(raw, 3, Len(raw)))
                 c == IF raw[2] = "n" THEN "\n" ELSE raw[2]
             IN  [ok |-> rest.ok, s |-> <<c>> \o rest.s]
    ELSE LET rest == Unescape(Tail(raw))
         IN  [ok |-> rest.ok, s |-> <<raw[1]>> \o rest.s]

RECURSIVE DumpsAt(_, _)
RECURSIVE DumpsItems(_, _, _)
DumpsItems(xs, i, depth) ==
    IF i > Len(xs) THEN <<>>
    ELSE <<TokWs(2 * depth)>> \o DumpsAt(xs[i], depth)
         \o (IF i < Len(xs) THEN <<Tok(",")>> ELSE <<>>)
         \o DumpsItems(xs, i + 1, depth)

DumpsAt(v, depth) ==
    CASE v.t = "str" -> <<TokStr(Escape(v.s))>>
      [] v.t = "null" -> <<Tok("null")>>
      [] v.t = "num" -> <<[tok |-> "number", raw |-> v.s]>>
      [] v.t = "pair" ->
            <<TokStr(Escape(v.s)), Tok(":"), [tok |-> "ws", raw |-> <<" ">>]>>
            \o DumpsAt(v.items[1], depth)
      [] v.t = "list" ->
            IF v.items = <<>> THEN <<Tok("["), Tok("]")>>
            ELSE <<Tok("[")>> \o DumpsItems(v.items, 1, depth + 1)
                 \o <<TokWs(2 * depth), Tok("]")>>
      [] v.t = "obj" ->
            IF v.items = <<>> THEN <<Tok("{"), Tok("}")>>
            ELSE <<Tok("{")>> \o DumpsItems(v.items, 1, depth + 1)
                 \o <<TokWs(2 * depth), Tok("}")>>

\* json.dumps(value, ensure_ascii=False, indent=2)
Dumps(v) == DumpsAt(v, 0)

\* the first index at or after i that holds no white space
RECURSIVE SkipWs(_, _)
SkipWs(toks, i) ==
    IF i <= Len(toks) /\ toks[i].tok = "ws" THEN SkipWs(toks, i + 1) ELSE i

ParseFail == [ok |-> FALSE, v |-> JNull, i |-> 0]

RECURSIVE ParseValue(_, _)
RECURSIVE ParseElements(_, _, _)
RECURSIVE ParseMembers(_, _, _)

RECURSIVE ElementsAfter(_, _, _, _)
RECURSIVE MembersAfter(_, _, _, _, _)

\* what follows the element v of an array, j being the place of the
\* next token after it
ElementsAfter(toks, acc, v, j) ==
    IF ~v.ok \/ j > Len(toks) THEN ParseFail
    ELSE IF toks[j].tok = "]"
         THEN [ok |-> TRUE, v |-> JList(Append(acc, v.v)), i |-> j + 1]
    ELSE IF toks[j].tok = ","
         THEN ParseElements(toks, j + 1, Append(acc, v.v))
    ELSE ParseFail

ElementsWith(toks, acc, v) == ElementsAfter(toks, acc, v, SkipWs(toks, v.i))

\* the elements of an array after "[" or after a ",": acc holds those read
ParseElements(toks, i0, acc) == ElementsWith(toks, acc, ParseValue(toks, i0))

\* a later member of the same name replaces the earlier one, as in a dict
PutMember(acc, k, v) ==
    IF \E n \in 1..Len(acc) : acc[n].s = k
    THEN [n \in 1..Len(acc) |-> IF acc[n].s = k THEN JPair(k, v) ELSE acc[n]]
    ELSE Append(acc, JPair(k, v))

\* what follows the member k: v of an object, j being the place of the
\* next token after it
MembersAfter(toks, acc, k, v, j) ==
    IF ~v.ok \/ j > Len(toks) THEN ParseFail
    ELSE IF toks[j].tok = "}"
         THEN [ok |-> TRUE, v |-> JObj(PutMember(acc, k, v.v)), i |-> j + 1]
    ELSE IF toks[j].tok = ","
         THEN ParseMembers(toks, j + 1, PutMember(acc, k, v.v))
    ELSE ParseFail

MemberWith(toks, acc, k, v) ==
    MembersAfter(toks, acc, k, v, SkipWs(toks, v.i))

\* the ":" at c and the value after the name k
MemberValue(toks, acc, k, c) ==
    IF ~k.ok \/ c > Len(toks) \/ toks[c].tok # ":" THEN ParseFail
    ELSE MemberWith(toks, acc, k.s, ParseValue(toks, c + 1))

\* the name at i
MemberName(toks, acc, i) ==
    IF i > Len(toks) \/ toks[i].tok # "string" THEN ParseFail
    ELSE MemberValue(toks, acc, Unescape(toks[i].raw), SkipWs(toks, i + 1))

\* the members of an object after "{" or after a ",": acc holds those read
ParseMembers(toks, i0, acc) == MemberName(toks, acc, SkipWs(toks, i0))

\* a string, u being its text without the escapes, then the place after it
StringValue(u, i) ==
    IF u.ok THEN [ok |-> TRUE, v |-> JStr(u.s), i |-> i] ELSE ParseFail

\* an array, j being the place of the first token after "[" at i
ArrayValue(toks, i, j) ==
    IF j <= Len(toks) /\ toks[j].tok = "]"
    THEN [ok |-> TRUE, v |-> JList(<<>>), i |-> j + 1]
    ELSE ParseElements(toks, i + 1, <<>>)

\* an object, j being the place of the first token after "{" at i
ObjectValue(toks, i, j) ==
    IF j <= Len(toks) /\ toks[j].tok = "}"
    THEN [ok |-> TRUE, v |-> JObj(<<>>), i |-> j + 1]
    ELSE ParseMembers(toks, i + 1, <<>>)

\* the value that starts at the token at i
ValueAt(toks, i) ==
    IF i > Len(toks) THEN ParseFail
    ELSE CASE toks[i].tok = "string" -> StringValue(Unescape(toks[i].raw), i + 1)
           [] toks[i].tok = "null" -> [ok |-> TRUE, v |-> JNull, i |-> i + 1]
           [] toks[i].tok = "number" ->
                 [ok |-> TRUE, v |-> JNum(toks[i].raw), i |-> i + 1]
           [] toks[i].tok = "[" -> ArrayValue(toks, i, SkipWs(toks, i + 1))
           [] toks[i].tok = "{" -> ObjectValue(toks, i, SkipWs(toks, i + 1))
           [] OTHER -> ParseFail

ParseValue(toks, i0) == ValueAt(toks, SkipWs(toks, i0))

\* the whole text must be one value, r being that value as parsed
WholeText(toks, r) ==
    IF r.ok /\ SkipWs(toks, r.i) = Len(toks) + 1
    THEN [ok |-> TRUE, v |-> r.v]
    ELSE [ok |-> FALSE, v |-> JNull]

\* json.load: ok is FALSE where it raises JSONDecodeError
Loads(toks) == WholeText(toks, ParseValue(toks, 1))

(***************************************************************************)
(* Text constants of the program.                                          *)
(***************************************************************************)
TxtKernels == <<"k", "e", "r", "n", "e", "l", "s">>
TxtKernelJson == <<"k", "e", "r", "n", "e", "l", ".", "j", "s", "o", "n">>
TxtArgv == <<"a", "r", "g", "v">>
TxtDisplayName ==
    <<"d", "i", "s", "p", "l", "a", "y", "_", "n", "a", "m", "e">>
TxtLanguage == <<"l", "a", "n", "g", "u", "a", "g", "e">>
TxtPython == <<"p", "y", "t", "h", "o", "n">>
TxtDashM == <<"-", "m">>
TxtLauncher == <<"i", "p", "y", "k", "e", "r", "n", "e", "l", "_",
                 "l", "a", "u", "n", "c", "h", "e", "r">>
TxtDashF == <<"-", "f">>
TxtConnectionFile == <<"{", "c", "o", "n", "n", "e", "c", "t", "i", "o", "n",
                       "_", "f", "i", "l", "e", "}">>
TxtArrow == <<" ", "-", "-", ">", " ">>
TxtKernelColon == <<"k", "e", "r", "n", "e", "l", ":", " ">>
TxtLogo32 == <<"l", "o", "g", "o", "-", "3", "2", "x", "3", "2", ".", "p", "n", "g">>
TxtLogo64 == <<"l", "o", "g", "o", "-", "6", "4", "x", "6", "4", ".", "p", "n", "g">>
TxtDarwinData == <<"~", "/", "L", "i", "b", "r", "a", "r", "y", "/",
                   "J", "u", "p", "y", "t", "e", "r">>
TxtLinuxData == <<"~", "/", ".", "l", "o", "c", "a", "l", "/",
                  "s", "h", "a", "r", "e", "/", "j", "u", "p", "y", "t", "e", "r">>

(***************************************************************************)
(* The machine the program runs on: the user's home directory, the         *)
(* interpreters installed on it and the contexts an invocation may run in. *)
(***************************************************************************)
\* the home directory of the user, what "~" expands to
HomeDir == <<"/", "h">>
\* a home directory whose name glob.glob reads as a pattern: the brackets
\* are part of the name of the directory
PatternHome == <<"/", "[", "h", "]">>

\* os.path.expanduser for a user whose home directory is home
Expanduser(home, s) ==
    IF s # <<>> /\ s[1] = "~" /\ (Len(s) = 1 \/ s[2] = "/")
    THEN home \o Tail(s) ELSE s

\* the system interpreter (SysMock: base_prefix and executable)
BasePrefix == <<"/", "u">>
BaseExe == <<"/", "u", "/", "p">>
\* an activated virtual environment (SysMock.activate: prefix "/root/.test")
VenvPrefix == <<"/", "v", "/", ".", "t">>
VenvExe == <<"/", "v", "/", ".", "t", "/", "p">>
\* a file of the working directory with a one-character name
CwdFile == <<"p">>

SysBase == [prefix |-> BasePrefix, base_prefix |-> BasePrefix,
            executable |-> BaseExe, real_prefix |-> FALSE, major |-> 3]
SysVenv == [prefix |-> VenvPrefix, base_prefix |-> BasePrefix,
            executable |-> VenvExe, real_prefix |-> FALSE, major |-> 3]
Systems == {SysBase, SysVenv}

\* os.getenv of a marker variable: unset (None) or set to a text
EnvUnset == [isset |-> FALSE, val |-> <<>>]
EnvSet(v) == [isset |-> TRUE, val |-> v]
EnvValues == {EnvUnset, EnvSet(<<"x">>)}

\* the interpreter and the marker variables invocations run with: the
\* system interpreter in a shell without markers, and the interpreter of
\* the virtual environment in a shell that never ran its activate script
Processes ==
    {[sys |-> SysBase, CONDA_PREFIX |-> EnvUnset, VIRTUAL_ENV |-> EnvUnset],
     [sys |-> SysVenv, CONDA_PREFIX |-> EnvUnset, VIRTUAL_ENV |-> EnvUnset]}

\* what may go wrong inside one invocation: the package manager exits with
\* a non-zero status, opening a file for writing fails, or the n-th call of
\* _remove_dir fails
Faults == {"none", "pip", "open_spec", "open_logo32", "open_logo64",
           "rm1", "rm2"}
WriteFaults == {"none", "pip", "open_spec", "open_logo32", "open_logo64"}
RemoveFaults == {"none", "rm1", "rm2"}

\* whether base64.b64decode accepts the embedded image
LOGO_DECODES == (TxtLogo32 :> TRUE) @@ (TxtLogo64 :> TRUE)

\* the context of one invocation: the interpreter's sys module, the marker
\* variables, whether jupyter_core can be imported, the fault it meets,
\* the order in which os.listdir enumerates the kernel root, and which of
\* the images of the module base64.b64decode accepts
Context(p, jcore, fault, order) ==
    [sys |-> p.sys, CONDA_PREFIX |-> p.CONDA_PREFIX,
     VIRTUAL_ENV |-> p.VIRTUAL_ENV,
     jupyter_core |-> jcore, fault |-> fault, order |-> order,
     decodes |-> LOGO_DECODES]

(***************************************************************************)
(* The filesystem.  root is the state of the kernel root; kernels maps     *)
(* the name of each child of the root to what it is; files is the state    *)
(* of the files that descriptors name as interpreters; shared is the state *)
(* of the system-wide kernel directory that jupyter_core also lists.       *)
(***************************************************************************)
NoFile == [t |-> "none", perm |-> FALSE, utf8 |-> FALSE, toks |-> <<>>]
DirFile == [t |-> "dir", perm |-> TRUE, utf8 |-> FALSE, toks |-> <<>>]
TextFile(toks) == [t |-> "file", perm |-> TRUE, utf8 |-> TRUE, toks |-> toks]
LockedFile(toks) ==
    [t |-> "file", perm |-> FALSE, utf8 |-> TRUE, toks |-> toks]
BinaryFile == [t |-> "file", perm |-> TRUE, utf8 |-> FALSE, toks |-> <<>>]

NoLogos == [l32 |-> "absent", l64 |-> "absent"]
\* a child of the kernel root: a regular file, a directory, a symbolic link
\* to a directory elsewhere, or a symbolic link to nothing
PlainFile == [kind |-> "file", kj |-> NoFile, logos |-> NoLogos]
Dangling == [kind |-> "dangling", kj |-> NoFile, logos |-> NoLogos]
Dir(kj, logos) == [kind |-> "dir", kj |-> kj, logos |-> logos]
Link(kj, logos) == [kind |-> "link", kj |-> kj, logos |-> logos]

NoKernels == [n \in {} |-> PlainFile]

Platforms == {"Linux", "Darwin", "Windows"}

\* str.lower of the names platform.system returns
LowerName(p) ==
    CASE p = "Linux" -> "linux" [] p = "Darwin" -> "darwin"
      [] p = "Windows" -> "windows" [] p = "Java" -> "java" [] OTHER -> p

(***************************************************************************)
(* The state of a running invocation: the host's filesystem, the lines     *)
(* printed, how many times _remove_dir and the package manager were        *)
(* called, the calls made so far of the functions that derive a name or a  *)
(* path, write or remove, whether the fault of the context has struck, the *)
(* kernels the validator was called for, and whether the process is still  *)
(* running, has called sys.exit or is unwinding an exception (errno is     *)
(* that of an OSError).                                                    *)
(***************************************************************************)
Running == [k |-> "run", code |-> 0, exc |-> "", errno |-> 0]
Exit(code) == [k |-> "exit", code |-> code, exc |-> "", errno |-> 0]
Raise(exc) == [k |-> "raise", code |-> 1, exc |-> exc, errno |-> 0]
RaiseOSError(e) == [k |-> "raise", code |-> 1, exc |-> "OSError", errno |-> e]

Start(host) ==
    [host |-> host, out |-> <<>>, rm |-> 0, pip |-> 0, calls |-> <<>>,
     hit |-> FALSE, checked |-> {}, st |-> Running]

\* the invocation enters function f
Called(m, f) == [m EXCEPT !.calls = Append(@, f)]

\* the exit status of the process: 0 on return, the argument of sys.exit,
\* 1 for an exception nothing catches
ExitStatus(st) == IF st.k = "run" THEN 0 ELSE st.code

\* sys.exit(code)
SysExit(m, code) == [m EXCEPT !.st = Exit(code)]

(***************************************************************************)
(* Paths of the host.                                                      *)
(***************************************************************************)
RECURSIVE JoinAll(_, _)
JoinAll(a, parts) ==
    IF parts = <<>> THEN a ELSE JoinAll(Join(a, Head(parts)), Tail(parts))

\* the dictionary built by _get_data_path
paths_spec(home, subdirs) ==
    ("darwin" :> JoinAll(Expanduser(home, TxtDarwinData), subdirs))
    @@ ("linux" :> JoinAll(Expanduser(home, TxtLinuxData), subdirs))

\* the kernel root of a host whose platform is supported
KernelRoot(host) == paths_spec(host.home, <<TxtKernels>>)[LowerName(host.platform)]
\* the system-wide kernel directory jupyter_core lists after the user's
SharedRoot == <<"/", "s", "/", "k">>

\* the index of the first "/" of a text at or after i, 0 when there is none
RECURSIVE FirstSlash(_, _)
FirstSlash(s, i) ==
    IF i > Len(s) THEN 0 ELSE IF s[i] = "/" THEN i ELSE FirstSlash(s, i + 1)

\* the kernel root of the host, <<>> when its platform has none
RootOf(host) ==
    IF LowerName(host.platform) \in DOMAIN paths_spec(host.home, <<>>)
    THEN KernelRoot(host) ELSE <<>>

\* what rest, a path relative to the kernel root, names; cut is the index
\* of its first "/"
Below(rest, cut) ==
    IF cut = 0 THEN [w |-> "child", n |-> rest, leaf |-> <<>>]
    ELSE IF cut > 1 /\ cut < Len(rest) /\ FirstSlash(rest, cut + 1) = 0
         THEN [w |-> "leaf", n |-> SubSeq(rest, 1, cut - 1),
               leaf |-> SubSeq(rest, cut + 1, Len(rest))]
    ELSE [w |-> "other", n |-> <<>>, leaf |-> <<>>]

BelowRoot(rest) == Below(rest, FirstSlash(rest, 1))

LocateFrom(host, path, r) ==
    IF r # <<>> /\ path = r THEN [w |-> "root", n |-> <<>>, leaf |-> <<>>]
    ELSE IF r # <<>> /\ Len(path) > Len(r) + 1
            /\ SubSeq(path, 1, Len(r) + 1) = r \o <<"/">>
         THEN BelowRoot(SubSeq(path, Len(r) + 2, Len(path)))
    ELSE IF path = SharedRoot
         THEN [w |-> "shared", n |-> <<>>, leaf |-> <<>>]
    ELSE IF path \in DOMAIN host.files
         THEN [w |-> "file", n |-> <<>>, leaf |-> <<>>]
    ELSE [w |-> "other", n |-> <<>>, leaf |-> <<>>]

\* what a path names: the kernel root, a child of it, a file of a child,
\* the system-wide kernel directory, an interpreter file or something else
Locate(host, path) == LocateFrom(host, path, RootOf(host))

Absent == [kind |-> "absent", kj |-> NoFile, logos |-> NoLogos]

\* the child of the kernel root of that name, as a lookup from the root sees it
Entry(host, n) ==
    IF host.root = "dir" /\ n \in DOMAIN host.kernels
    THEN host.kernels[n] ELSE Absent

\* a location together with the child of the kernel root it lies in
AtEntry(host, loc) ==
    [w |-> loc.w, n |-> loc.n, leaf |-> loc.leaf, e |-> Entry(host, loc.n)]

\* a path resolved on the host
Look(host, path) == AtEntry(host, Locate(host, path))

\* the state of a logo file of a child
LogoState(e, leaf) ==
    IF leaf = TxtLogo32 THEN e.logos.l32
    ELSE IF leaf = TxtLogo64 THEN e.logos.l64 ELSE "absent"

IsDirAt(host, path, at) ==
    CASE at.w = "root" -> host.root \in {"dir", "denied"}
      [] at.w = "child" -> at.e.kind \in {"dir", "link"}
      [] at.w = "leaf" ->
            at.e.kind \in {"dir", "link"} /\ at.leaf = TxtKernelJson
            /\ at.e.kj.t = "dir"
      [] at.w = "shared" -> host.shared = "dir"
      [] at.w = "file" -> host.files[path] = "dir"
      [] OTHER -> FALSE

\* os.path.isdir (symbolic links are followed)
IsDir(host, path) == IsDirAt(host, path, Look(host, path))

IsFileAt(host, path, at) ==
    CASE at.w = "child" -> at.e.kind = "file"
      [] at.w = "leaf" ->
            at.e.kind \in {"dir", "link"}
            /\ IF at.leaf = TxtKernelJson THEN at.e.kj.t = "file"
               ELSE LogoState(at.e, at.leaf) # "absent"
      [] at.w = "file" -> host.files[path] \in {"file", "exec"}
      [] OTHER -> FALSE

\* os.path.isfile (symbolic links are followed)
IsFile(host, path) == IsFileAt(host, path, Look(host, path))

ExistsAt(host, path, at) ==
    IF at.w = "root" THEN host.root # "absent"
    ELSE IsDirAt(host, path, at) \/ IsFileAt(host, path, at)

\* os.path.exists (symbolic links are followed)
Exists(host, path) == ExistsAt(host, path, Look(host, path))

LExistsAt(host, path, at) ==
    ExistsAt(host, path, at) \/ (at.w = "child" /\ at.e.kind = "dangling")

\* os.path.lexists: a symbolic link to nothing exists too
LExists(host, path) == LExistsAt(host, path, Look(host, path))

IsLinkAt(at) == at.w = "child" /\ at.e.kind \in {"link", "dangling"}

\* os.path.islink
IsLink(host, path) == IsLinkAt(Look(host, path))

AccessXAt(host, path, at) ==
    CASE at.w = "file" -> host.files[path] \in {"exec", "dir"}
      [] at.w \in {"root", "child", "leaf", "shared"} -> IsDirAt(host, path, at)
      [] OTHER -> FALSE

\* os.access(path, os.X_OK)
AccessX(host, path) == AccessXAt(host, path, Look(host, path))

(***************************************************************************)
(* Filesystem calls that change the host.                                  *)
(***************************************************************************)
OsOk(host) == [ok |-> TRUE, errno |-> 0, host |-> host]
OsError(e, host) == [ok |-> FALSE, errno |-> e, host |-> host]

DropKey(f, n) == [k \in DOMAIN f \ {n} |-> f[k]]
PutKey(f, n, v) == [k \in DOMAIN f \cup {n} |-> IF k = n THEN v ELSE f[k]]

\* a directory just made
FreshDir == Dir(NoFile, NoLogos)

MakeDirsAt(host, at) ==
    IF at.w # "child" THEN OsError(EACCES, host)
    ELSE CASE host.root = "absent" ->
                OsOk([host EXCEPT !.root = "dir",
                                  !.kernels = PutKey(NoKernels, at.n, FreshDir)])
           [] host.root = "file" -> OsError(ENOTDIR, host)
           [] host.root = "denied" -> OsError(EACCES, host)
           [] OTHER ->
                IF at.n \in DOMAIN host.kernels THEN OsError(EEXIST, host)
                ELSE OsOk([host EXCEPT
                             !.kernels = PutKey(host.kernels, at.n, FreshDir)])

\* os.makedirs(path) of a child of the kernel root: missing parents are
\* created, an existing last component is an error
MakeDirs(host, path) == MakeDirsAt(host, Look(host, path))

\* the directories the symbolic links among the children point to
LinkTargets(kernels) ==
    {[kj |-> kernels[n].kj, logos |-> kernels[n].logos] :
        n \in {k \in DOMAIN kernels : kernels[k].kind = "link"}}

UnlinkAt(host, at) ==
    IF at.w = "child" /\ at.e.kind \in {"link", "dangling"}
    THEN OsOk([host EXCEPT
                 !.kernels = DropKey(host.kernels, at.n),
                 !.targets = IF at.e.kind = "link"
                             THEN @ \cup {[kj |-> at.e.kj, logos |-> at.e.logos]}
                             ELSE @])
    ELSE OsError(ENOENT, host)

\* os.unlink(path) of a symbolic link: the directory it points to stays
Unlink(host, path) == UnlinkAt(host, Look(host, path))

RmTreeAt(host, at) ==
    CASE at.w = "root" ->
            CASE host.root = "dir" ->
                    OsOk([host EXCEPT !.root = "absent",
                                      !.kernels = NoKernels,
                                      !.targets = @ \cup LinkTargets(host.kernels)])
              [] host.root = "denied" -> OsError(EACCES, host)
              [] host.root = "file" -> OsError(ENOTDIR, host)
              [] OTHER -> OsError(ENOENT, host)
      [] at.w = "child" ->
            CASE at.e.kind = "dir" ->
                    OsOk([host EXCEPT !.kernels = DropKey(host.kernels, at.n)])
              [] at.e.kind = "file" -> OsError(ENOTDIR, host)
              [] OTHER -> OsError(ENOENT, host)
      [] at.w = "shared" ->
            IF host.shared = "dir" THEN OsOk([host EXCEPT !.shared = "absent"])
            ELSE OsError(ENOENT, host)
      [] OTHER -> OsError(ENOENT, host)

\* shutil.rmtree(path)
RmTree(host, path) == RmTreeAt(host, Look(host, path))

OpenReadAt(host, at) ==
    IF at.w # "leaf" \/ at.leaf # TxtKernelJson THEN OsError(ENOENT, host)
    ELSE CASE at.e.kind = "file" -> OsError(ENOTDIR, host)
           [] at.e.kind \in {"absent", "dangling"} -> OsError(ENOENT, host)
           [] at.e.kj.t = "none" -> OsError(ENOENT, host)
           [] at.e.kj.t = "dir" -> OsError(EISDIR, host)
           [] ~at.e.kj.perm -> OsError(EACCES, host)
           [] OTHER -> OsOk(host)

\* io.open(path, mode="rt") of a file of a child
OpenRead(host, path) == OpenReadAt(host, Look(host, path))

\* the child with that file of it created when missing, emptied when present
Emptied(e, leaf) ==
    IF leaf = TxtKernelJson THEN [e EXCEPT !.kj = TextFile(<<>>)]
    ELSE IF leaf = TxtLogo32 THEN [e EXCEPT !.logos.l32 = "empty"]
    ELSE [e EXCEPT !.logos.l64 = "empty"]

OpenWriteAt(host, at, fails) ==
    IF at.w # "leaf" \/ at.leaf \notin {TxtKernelJson, TxtLogo32, TxtLogo64}
    THEN OsError(ENOENT, host)
    ELSE CASE at.e.kind = "file" -> OsError(ENOTDIR, host)
           [] at.e.kind \in {"absent", "dangling"} -> OsError(ENOENT, host)
           [] fails -> OsError(EACCES, host)
           [] at.leaf = TxtKernelJson /\ at.e.kj.t = "dir" ->
                OsError(EISDIR, host)
           [] at.leaf = TxtKernelJson /\ at.e.kj.t = "file" /\ ~at.e.kj.perm ->
                OsError(EACCES, host)
           [] OTHER ->
                OsOk([host EXCEPT
                        !.kernels = PutKey(host.kernels, at.n,
                                           Emptied(at.e, at.leaf))])

\* io.open(path, mode="wt") or "wb" of a file of a child: the file is
\* created when missing and emptied when present
OpenWrite(host, path, fails) == OpenWriteAt(host, Look(host, path), fails)

WriteTextAt(host, loc, toks) ==
    [host EXCEPT !.kernels[loc.n].kj = TextFile(toks)]

\* stream_out.write(text) to the kernel.json just opened
WriteText(host, path, toks) == WriteTextAt(host, Locate(host, path), toks)

WriteLogoAt(host, loc) ==
    IF loc.leaf = TxtLogo32
    THEN [host EXCEPT !.kernels[loc.n].logos.l32 = "png"]
    ELSE [host EXCEPT !.kernels[loc.n].logos.l64 = "png"]

\* stream_out.write(bytes) to the logo just opened
WriteLogo(host, path) == WriteLogoAt(host, Locate(host, path))

ListDirAt(host, loc, order) ==
    IF loc.w # "root" THEN [ok |-> FALSE, errno |-> ENOENT, content |-> <<>>]
    ELSE CASE host.root = "dir" -> [ok |-> TRUE, errno |-> 0, content |-> order]
           [] host.root = "file" ->
                [ok |-> FALSE, errno |-> ENOTDIR, content |-> <<>>]
           [] host.root = "denied" ->
                [ok |-> FALSE, errno |-> EACCES, content |-> <<>>]
           [] OTHER -> [ok |-> FALSE, errno |-> ENOENT, content |-> <<>>]

\* os.listdir(path) of the kernel root; order is the order of enumeration
ListDir(host, path, order) == ListDirAt(host, Locate(host, path), order)

\* glob.has_magic: the text holds a character glob reads as a pattern
HasMagic(path) == \E i \in 1..Len(path) : path[i] \in {"*", "?", "["}

\* the one text a pattern matches whose special characters are classes of
\* one character: "[h]" matches "h" and does not match "[h]"
RECURSIVE Unbracket(_)
Unbracket(s) ==
    IF s = <<>> THEN <<>>
    ELSE IF Len(s) >= 3 /\ s[1] = "[" /\ s[3] = "]" /\ s[2] \notin {"!", "]"}
         THEN <<s[2]>> \o Unbracket(SubSeq(s, 4, Len(s)))
    ELSE <<Head(s)>> \o Unbracket(Tail(s))

\* the matches of a pattern that only q can match
GlobOf(host, q) == IF LExists(host, q) THEN <<q>> ELSE <<>>

\* glob.glob(path): for a path without pattern characters the path when
\* something is there (a symbolic link to nothing included); for a path
\* with classes of one character what the pattern matches, when that is
\* there
Glob(host, path) ==
    GlobOf(host, IF HasMagic(path) THEN Unbracket(path) ELSE path)

(***************************************************************************)
(* The functions of notebook_environments.py.  Each takes the state m of   *)
(* the invocation and its context c and gives the state after it; a        *)
(* function called after the process has exited or while an exception      *)
(* unwinds does nothing.                                                   *)
(***************************************************************************)
\* bool(os.getenv(...)) of a marker variable
Truthy(v) == v.isset /\ v.val # <<>>

\* a detector that looks at the marker of the isolation tool alone
_in_conda_environment(c) == Truthy(c.CONDA_PREFIX)

_in_virtual_environment(c) ==
    LET is_using_venv ==
            c.sys.real_prefix \/ c.sys.base_prefix # c.sys.prefix
    IN  Truthy(c.CONDA_PREFIX) \/ Truthy(c.VIRTUAL_ENV) \/ is_using_venv

\* a resolver that takes every platform but macOS for Linux
_get_data_path_linux(m, subdirs) ==
    IF m.st.k # "run" THEN [m |-> m, path |-> <<>>]
    ELSE [m |-> Called(m, "_get_data_path"),
          path |-> paths_spec(m.host.home, subdirs)[IF m.host.platform = "Darwin"
                                       THEN "darwin" ELSE "linux"]]

_get_data_path(m, subdirs) ==
    LET key == LowerName(m.host.platform)
        m1 == Called(m, "_get_data_path")
    IN  IF m.st.k # "run" THEN [m |-> m, path |-> <<>>]
        ELSE IF key \in DOMAIN paths_spec(m.host.home, subdirs)
             THEN [m |-> m1, path |-> paths_spec(m.host.home, subdirs)[key]]
        ELSE [m |-> SysExit(m1, EPERM), path |-> <<>>]

\* the characters outside ASCII that re.IGNORECASE folds to a letter of
\* a-z on a text pattern: capital I with dot, dotless i, long s and the
\* Kelvin sign, each written here as the name of its code point
CaseFolded == {"U+0130", "U+0131", "U+017F", "U+212A"}

\* re.compile(r"^[a-z0-9._\-]+$", re.IGNORECASE).match(name): "$" also
\* matches before a newline that ends the text
KERNEL_NAME_PATTERN(name) ==
    LET core == IF name # <<>> /\ name[Len(name)] = "\n"
                THEN SubSeq(name, 1, Len(name) - 1) ELSE name
    IN  /\ core # <<>>
        /\ \A i \in 1..Len(core) :
              core[i] \in Lower \cup Upper \cup Digit \cup {".", "_", "-"}
                        \cup CaseFolded

_get_kernel_name(m, c) ==
    LET name == Basename(c.sys.prefix)
        m1 == Called(m, "_get_kernel_name")
    IN  IF m.st.k # "run" THEN [m |-> m, name |-> <<>>]
        ELSE IF ~KERNEL_NAME_PATTERN(name)
             THEN [m |-> SysExit(m1, EPERM), name |-> <<>>]
        ELSE [m |-> m1, name |-> name]

\* a listing step that raises every OSError of os.listdir to the caller
_list_kernels_in_strict(m, c, path) ==
    IF m.st.k # "run" THEN [m |-> m, content |-> <<>>]
    ELSE IF ListDir(m.host, path, c.order).ok
         THEN [m |-> m, content |-> ListDir(m.host, path, c.order).content]
    ELSE [m |-> [m EXCEPT !.st = RaiseOSError(ListDir(m.host, path, c.order).errno)],
          content |-> <<>>]

\* the listing step of the generator: os.listdir, exit 0 for a root that
\* is missing or no directory, any other OSError raised to the caller
Listed(m, l) ==
    IF m.st.k # "run" THEN [m |-> m, content |-> <<>>]
    ELSE IF l.ok THEN [m |-> m, content |-> l.content]
    ELSE IF l.errno \in {ENOENT, ENOTDIR}
         THEN [m |-> SysExit(m, 0), content |-> <<>>]
    ELSE [m |-> [m EXCEPT !.st = RaiseOSError(l.errno)], content |-> <<>>]

_list_kernels_in(m, c, path) == Listed(m, ListDir(m.host, path, c.order))

\* a test that takes every directory for a kernel
IsDirectory(host, path, item) == IsDir(host, Join(path, item))

\* a test that takes every child but a regular file for a kernel
IsNoRegularFile(host, path, item) ==
    LExists(host, Join(path, item)) /\ ~IsFile(host, Join(path, item))

\* the test of the generator's loop: whether item is yielded as a kernel
IsKernel(host, path, item) ==
    LET abspath == Join(path, item)
    IN  IsDir(host, abspath) /\ IsFile(host, Join(abspath, TxtKernelJson))

_kernel_info(name, path) == [name |-> name, path |-> path]

\* what the generator yields for a listing on a host nobody changes
\* between two of its steps
RECURSIVE Yielded(_, _, _)
Yielded(host, path, content) ==
    IF content = <<>> THEN <<>>
    ELSE (IF IsKernel(host, path, Head(content))
          THEN <<_kernel_info(Head(content), Join(path, Head(content)))>>
          ELSE <<>>) \o Yielded(host, path, Tail(content))

\* a descriptor without the language of the kernel
kernel_spec_without_language(c) ==
    JObj(<<JPair(TxtArgv, JList(<<JStr(c.sys.executable), JStr(TxtDashM),
                                  JStr(TxtLauncher), JStr(TxtDashF),
                                  JStr(TxtConnectionFile)>>)),
           JPair(TxtDisplayName,
                 JStr(TxtPython \o <<DigitOf(c.sys.major)>> \o TxtArrow
                      \o c.sys.prefix))>>)

kernel_spec(c) ==
    JObj(<<JPair(TxtArgv, JList(<<JStr(c.sys.executable), JStr(TxtDashM),
                                  JStr(TxtLauncher), JStr(TxtDashF),
                                  JStr(TxtConnectionFile)>>)),
           JPair(TxtDisplayName,
                 JStr(TxtPython \o <<DigitOf(c.sys.major)>> \o TxtArrow
                      \o c.sys.prefix)),
           JPair(TxtLanguage, JStr(TxtPython))>>)

\* a writer whose descriptor launches the environment's directory in the
\* place of its interpreter
WriteSpecificationOfPrefix(m, c, file, o) ==
    IF ~o.ok THEN SysExit([m EXCEPT !.hit = @ \/ c.fault = "open_spec"], o.errno)
    ELSE [m EXCEPT !.host =
            WriteText(o.host, file,
                      Dumps(JObj(<<JPair(TxtArgv, JList(<<JStr(c.sys.prefix)>>))>>)))]

\* the with block, o being what io.open gave
WriteSpecification(m, c, file, o) ==
    IF ~o.ok THEN SysExit([m EXCEPT !.hit = @ \/ c.fault = "open_spec"], o.errno)
    ELSE [m EXCEPT !.host = WriteText(o.host, file, Dumps(kernel_spec(c)))]

_write_kernel_specification(m, c, path) ==
    IF m.st.k # "run" THEN m
    ELSE WriteSpecification(Called(m, "_write_kernel_specification"), c,
                            Join(path, TxtKernelJson),
                            OpenWrite(m.host, Join(path, TxtKernelJson),
                                      c.fault = "open_spec"))

_provide_required_packages(m, c) ==
    LET m1 == Called(m, "_provide_required_packages")
    IN  IF m.st.k # "run" THEN m
        ELSE IF c.fault = "pip"
             THEN SysExit([m1 EXCEPT !.pip = @ + 1, !.hit = TRUE], EPERM)
        ELSE [m1 EXCEPT !.pip = @ + 1]

\* whether the fault of the context is that opening this logo fails
LogoFault(c, logo_name) ==
    c.fault = (IF logo_name = TxtLogo32 THEN "open_logo32" ELSE "open_logo64")

\* the with block, o being what io.open gave
WriteLogoFile(m, c, path, logo_name, o) ==
    IF ~o.ok THEN SysExit([m EXCEPT !.hit = @ \/ LogoFault(c, logo_name)], o.errno)
    ELSE IF c.decodes[logo_name]
         THEN [m EXCEPT !.host = WriteLogo(o.host, Join(path, logo_name))]
    ELSE [m EXCEPT !.host = o.host]

\* one turn of the loop of _write_python_logos
WriteOneLogo(m, c, path, logo_name) ==
    IF m.st.k # "run" THEN m
    ELSE WriteLogoFile(m, c, path, logo_name,
                       OpenWrite(m.host, Join(path, logo_name),
                                 LogoFault(c, logo_name)))

_write_python_logos(m, c, path) ==
    IF m.st.k # "run" THEN m
    ELSE WriteOneLogo(WriteOneLogo(Called(m, "_write_python_logos"),
                                   c, path, TxtLogo32), c, path, TxtLogo64)

\* the try block of the rm-th call, r being what os.unlink or
\* shutil.rmtree gave
Removed(m, c, r) ==
    IF (c.fault = "rm1" /\ m.rm = 1) \/ (c.fault = "rm2" /\ m.rm = 2)
    THEN SysExit([m EXCEPT !.hit = TRUE], EACCES)
    ELSE IF ~r.ok THEN SysExit(m, r.errno)
    ELSE [m EXCEPT !.host = r.host]

\* a _remove_dir that deletes through a symbolic link: the link goes and the
\* directory it points to is not kept
_remove_dir_and_target(m, c, path) ==
    IF m.st.k # "run" THEN m
    ELSE Removed([Called(m, "_remove_dir") EXCEPT !.rm = @ + 1], c,
                 IF IsLink(m.host, path)
                 THEN OsOk([m.host EXCEPT
                              !.kernels = DropKey(@, Basename(path))])
                 ELSE RmTree(m.host, path))

_remove_dir(m, c, path) ==
    IF m.st.k # "run" THEN m
    ELSE Removed([Called(m, "_remove_dir") EXCEPT !.rm = @ + 1], c,
                 IF IsLink(m.host, path) THEN Unlink(m.host, path)
                 ELSE RmTree(m.host, path))

\* value[key] for a text key: the exception raised, or "" and the member
GetMember(v, key) ==
    IF v.t # "obj" THEN [exc |-> "TypeError", v |-> JNull]
    ELSE IF \E n \in 1..Len(v.items) : v.items[n].s = key
         THEN [exc |-> "",
               v |-> v.items[CHOOSE n \in 1..Len(v.items) : v.items[n].s = key].items[1]]
    ELSE [exc |-> "KeyError", v |-> JNull]

\* value[0]
GetFirst(v) ==
    CASE v.t = "list" ->
            IF v.items = <<>> THEN [exc |-> "IndexError", v |-> JNull]
            ELSE [exc |-> "", v |-> v.items[1]]
      [] v.t = "str" ->
            IF v.s = <<>> THEN [exc |-> "IndexError", v |-> JNull]
            ELSE [exc |-> "", v |-> JStr(<<v.s[1]>>)]
      [] v.t = "obj" -> [exc |-> "KeyError", v |-> JNull]
      [] OTHER -> [exc |-> "TypeError", v |-> JNull]

\* the exceptions _check_and_remove_broken_kernel takes for a broken kernel
CaughtAsBroken == {"IOError", "OSError", "IndexError", "KeyError", "JSONDecodeError"}

\* the body of the try block: the exception it raises ("" for none) and
\* whether the interpreter named by the descriptor failed the test
\* all((os.path.isfile(python_path), os.access(python_path, os.X_OK))) of
\* first, the value of ["argv"][0]
TestInterpreter(host, first) ==
    IF first.exc # "" THEN [exc |-> first.exc, bad |-> FALSE]
    ELSE IF first.v.t # "str" THEN [exc |-> "TypeError", bad |-> FALSE]
    ELSE [exc |-> "",
          bad |-> ~(IsFile(host, first.v.s) /\ AccessX(host, first.v.s))]

\* ["argv"][0] of doc, what json.load gave
ReadArgv(host, argv) ==
    IF argv.exc # "" THEN [exc |-> argv.exc, bad |-> FALSE]
    ELSE TestInterpreter(host, GetFirst(argv.v))

ReadDocument(host, doc) ==
    IF ~doc.ok THEN [exc |-> "JSONDecodeError", bad |-> FALSE]
    ELSE ReadArgv(host, GetMember(doc.v, TxtArgv))

\* the with block, o being what io.open gave and f the file it opened
ReadDescriptor(host, o, f) ==
    IF ~o.ok THEN [exc |-> "OSError", bad |-> FALSE]
    ELSE IF ~f.utf8 THEN [exc |-> "UnicodeDecodeError", bad |-> FALSE]
    ELSE ReadDocument(host, Loads(f.toks))

ReadPythonPath(host, path) ==
    ReadDescriptor(host, OpenRead(host, Join(path, TxtKernelJson)),
                   Look(host, Join(path, TxtKernelJson)).e.kj)

\* a validator that takes every kernel for broken
_check_and_remove_any_kernel(m, c, path) == _remove_dir(m, c, path)

\* the handlers and the test, r being what the try block gave
RemoveIfBroken(m, c, path, r) ==
    IF m.st.k # "run" THEN m
    ELSE IF r.exc \in CaughtAsBroken \/ (r.exc = "" /\ r.bad)
         THEN _remove_dir(m, c, path)
    ELSE IF r.exc # "" THEN [m EXCEPT !.st = Raise(r.exc)]
    ELSE m

\* the invocation enters _check_and_remove_broken_kernel for that kernel
Entered(m, path) ==
    IF m.st.k # "run" THEN m
    ELSE [m EXCEPT !.checked = @ \cup {Basename(path)}]

_check_and_remove_broken_kernel(m, c, path) ==
    RemoveIfBroken(Entered(m, path), c, path, ReadPythonPath(m.host, path))

\* a _create_dir that accepts no existing directory
_create_dir_strict(m, c, path) ==
    IF m.st.k # "run" THEN m
    ELSE IF MakeDirs(m.host, path).ok
         THEN [Called(m, "_create_dir") EXCEPT !.host = MakeDirs(m.host, path).host]
    ELSE SysExit(Called(m, "_create_dir"), MakeDirs(m.host, path).errno)

\* the try block, r being what os.makedirs gave
MadeDir(m, path, r) ==
    IF r.ok THEN [m EXCEPT !.host = r.host]
    ELSE IF r.errno = EEXIST /\ IsDir(m.host, path) THEN m
    ELSE SysExit(m, r.errno)

_create_dir(m, c, path) ==
    IF m.st.k # "run" THEN m
    ELSE MadeDir(Called(m, "_create_dir"), path, MakeDirs(m.host, path))

\* a create_kernel that writes the descriptor before it installs
CreateKernelWriteFirst(m, c, path) ==
    _write_python_logos(
        _provide_required_packages(
            _write_kernel_specification(_create_dir(m, c, path), c, path), c),
        c, path)

\* the four steps at path, the place _get_data_path gave
CreateKernelAt(m, c, path) ==
    _write_python_logos(
        _write_kernel_specification(
            _provide_required_packages(_create_dir(m, c, path), c), c, path),
        c, path)

CreateKernel(c, d) == CreateKernelAt(d.m, c, d.path)

_create_new_kernel(m, c, name) ==
    CreateKernel(c, _get_data_path(m, <<TxtKernels, name>>))

\* an add that does not look at the activation state
add_without_gate(m, c) == _create_new_kernel(_get_kernel_name(m, c).m, c,
                                             _get_kernel_name(m, c).name)

CreateNamed(c, k) == _create_new_kernel(k.m, c, k.name)

add_active_environment(m, c) ==
    IF ~_in_virtual_environment(c) THEN SysExit(m, EPERM)
    ELSE CreateNamed(c, _get_kernel_name(m, c))

RECURSIVE RemoveEach(_, _, _)
RemoveEach(m, c, paths) ==
    IF paths = <<>> THEN m
    ELSE RemoveEach(_remove_dir(m, c, Head(paths)), c, Tail(paths))

\* the loop over glob.glob of d, the place _get_data_path gave
RemoveGlob(c, d) ==
    IF d.m.st.k # "run" THEN d.m
    ELSE RemoveEach(d.m, c, Glob(d.m.host, d.path))

RemoveNamed(c, k) == RemoveGlob(c, _get_data_path(k.m, <<TxtKernels, k.name>>))

remove_active_environment(m, c) ==
    IF ~_in_virtual_environment(c) THEN SysExit(m, EPERM)
    ELSE RemoveNamed(c, _get_kernel_name(m, c))

\* an except clause that exits with EPERM whatever the errno of the error
ExitWithEPERM(m) ==
    IF m.st.k = "raise" /\ m.st.exc = "OSError" THEN SysExit(m, EPERM) ELSE m

\* except OSError as err: sys.exit(getattr(err, "errno", errno.EPERM))
ExitOnOSError(m) ==
    IF m.st.k = "raise" /\ m.st.exc = "OSError" THEN SysExit(m, m.st.errno)
    ELSE m

\* the loop of purge_broken_kernels over the items the generator tests
RECURSIVE PurgeLoop(_, _, _, _)
PurgeLoop(m, c, path, content) ==
    IF content = <<>> \/ m.st.k # "run" THEN m
    ELSE LET item == Head(content)
             info == _kernel_info(item, Join(path, item))
             m1 == IF IsKernel(m.host, path, item)
                   THEN _check_and_remove_broken_kernel(m, c, info.path)
                   ELSE m
         IN  PurgeLoop(m1, c, path, Tail(content))

PurgeListed(c, path, l) == PurgeLoop(l.m, c, path, l.content)

PurgeIn(c, d) == PurgeListed(c, d.path, _list_kernels_in(d.m, c, d.path))

purge_broken_kernels(m, c) ==
    ExitOnOSError(PurgeIn(c, _get_data_path(m, <<TxtKernels>>)))

\* "kernel: {0} --> {1}".format(name, path)
\* a line that gives the name alone
KernelLineNameOnly(info) == info.name

KernelLine(info) == TxtKernelColon \o info.name \o TxtArrow \o info.path

RECURSIVE ShowLoop(_, _, _)
ShowLoop(m, path, content) ==
    IF content = <<>> \/ m.st.k # "run" THEN m
    ELSE LET item == Head(content)
             info == _kernel_info(item, Join(path, item))
             m1 == IF IsKernel(m.host, path, item)
                   THEN [m EXCEPT !.out = Append(@, KernelLine(info))]
                   ELSE m
         IN  ShowLoop(m1, path, Tail(content))

ShowListed(path, l) == ShowLoop(l.m, path, l.content)

ShowIn(c, d) == ShowListed(d.path, _list_kernels_in(d.m, c, d.path))

show_kernels(m, c) ==
    ExitOnOSError(ShowIn(c, _get_data_path(m, <<TxtKernels>>)))

\* the fallback, d being what _get_data_path gave
Fallback(d) == [m |-> d.m, paths |-> <<d.path>>]

\* jupyter_path("kernels"): the list of jupyter_core (the user's kernel
\* directory first, then the system-wide one) or, when jupyter_core cannot
\* be imported, the fallback [_get_data_path(path)]
jupyter_path(m, c, path) ==
    IF ~c.jupyter_core THEN Fallback(_get_data_path(m, <<path>>))
    ELSE IF LowerName(m.host.platform) \in DOMAIN paths_spec(m.host.home, <<>>)
         THEN [m |-> m, paths |-> <<KernelRoot(m.host), SharedRoot>>]
    ELSE [m |-> m, paths |-> <<SharedRoot>>]

\* an initialize that keeps what is under the kernel roots
KeepRoots(m, c, paths) == m

RECURSIVE RemoveRoots(_, _, _)
RemoveRoots(m, c, paths) ==
    IF paths = <<>> \/ m.st.k # "run" THEN m
    ELSE LET path == Head(paths)
             m1 == IF Exists(m.host, path) /\ IsDir(m.host, path)
                   THEN _remove_dir(m, c, path) ELSE m
         IN  RemoveRoots(m1, c, Tail(paths))

\* the loop over j, what jupyter_path gave, then the main kernel
Reset(c, j) ==
    _create_new_kernel(RemoveRoots(j.m, c, j.paths), c,
                       TxtPython \o <<DigitOf(c.sys.major)>>)

\* an initialize that does not look at the activation state
initialize_without_gate(m, c) == Reset(c, jupyter_path(m, c, TxtKernels))

initialize_new_notebook_environment(m, c) ==
    IF _in_virtual_environment(c) THEN SysExit(m, EPERM)
    ELSE Reset(c, jupyter_path(m, c, TxtKernels))

(***************************************************************************)
(* The state machine: one action per command, each a whole invocation of   *)
(* the program, and the loss of an interpreter between invocations.        *)
(***************************************************************************)
VARIABLES
    host,     \* the platform and the filesystem of the machine
    last,     \* the latest invocation: command, process, outcome, host before
    ops,      \* how many invocations the run has made
    running   \* where each of two invocations that run at once stands

vars == <<host, last, ops, running>>

\* json.dump({"argv": [python_path]}, stream_out) of the tests' setUp
FixtureText(python_path) ==
    <<Tok("{"), TokStr(Escape(TxtArgv)), Tok(":"), [tok |-> "ws", raw |-> <<" ">>],
      Tok("["), TokStr(Escape(python_path)), Tok("]"), Tok("}")>>

\* the names of the kernels of the tests' setUp
FixtureName(i) == <<"t", DigitOf(i)>>
FixtureKernels ==
    [n \in {FixtureName(i) : i \in 1..FixtureSize} |->
        Dir(TextFile(FixtureText(BaseExe)), NoLogos)]

InterpreterPaths == {BaseExe, VenvExe, CwdFile}

\* kernel.json files other programs may leave in a kernel directory
DescriptorSamples ==
    {NoFile, DirFile, BinaryFile,
     LockedFile(FixtureText(BaseExe)),
     TextFile(FixtureText(VenvExe)),
     TextFile(<<Tok("{")>>),
     TextFile(Dumps(JList(<<>>))),
     TextFile(Dumps(JObj(<<>>))),
     TextFile(Dumps(JObj(<<JPair(TxtArgv, JList(<<>>))>>))),
     TextFile(Dumps(JObj(<<JPair(TxtArgv, JNull)>>))),
     TextFile(Dumps(JObj(<<JPair(TxtArgv, JList(<<JNum(<<"5">>)>>))>>))),
     TextFile(Dumps(JObj(<<JPair(TxtArgv, JStr(CwdFile))>>)))}

\* children other programs may leave in the kernel root
ChildSamples ==
    {PlainFile, Dangling}
    \cup {Dir(kj, NoLogos) : kj \in DescriptorSamples}
    \cup {Link(kj, NoLogos) : kj \in {NoFile, TextFile(FixtureText(BaseExe)),
                                      TextFile(FixtureText(VenvExe))}}

\* what may already sit where the virtual environment registers
TargetSamples ==
    {PlainFile, Dangling, Dir(NoFile, NoLogos),
     Link(TextFile(FixtureText(VenvExe)), NoLogos)}

HostOf(platform, root, kernels, cwd) ==
    [platform |-> platform, root |-> root, kernels |-> kernels,
     files |-> [f \in InterpreterPaths |-> IF f = CwdFile THEN cwd ELSE "exec"],
     shared |-> "dir", targets |-> {}, home |-> HomeDir]

\* the hosts a run starts from.  On Linux: no kernel root, a regular file
\* in its place, an empty or an inaccessible one, the kernels of the tests'
\* setUp, and that fixture with its first kernel replaced or with a child
\* at the place of the virtual environment's kernel.  On the other
\* platforms: no kernel root, and the fixture.  And the fixture in a home
\* directory with brackets in its name, with and without a directory at
\* the place of the virtual environment's kernel.
InitialHosts ==
    {HostOf("Linux", "absent", NoKernels, "missing"),
     HostOf("Linux", "file", NoKernels, "missing"),
     HostOf("Linux", "dir", NoKernels, "missing"),
     HostOf("Linux", "denied", FixtureKernels, "missing"),
     HostOf("Linux", "dir", FixtureKernels, "missing")}
    \cup {HostOf("Linux", "dir", PutKey(FixtureKernels, FixtureName(1), e),
                 "missing") : e \in ChildSamples}
    \cup {HostOf("Linux", "dir",
                 PutKey(FixtureKernels, FixtureName(1),
                        Dir(TextFile(Dumps(JObj(<<JPair(TxtArgv, JStr(CwdFile))>>))),
                            NoLogos)), "exec")}
    \cup {HostOf("Linux", "dir", PutKey(FixtureKernels, Basename(VenvPrefix), e),
                 "missing") : e \in TargetSamples}
    \cup {[HostOf("Linux", "dir", k, "missing") EXCEPT !.home = PatternHome] :
            k \in {FixtureKernels,
                   PutKey(FixtureKernels, Basename(VenvPrefix),
                          Dir(NoFile, NoLogos))}}
    \cup {HostOf(p, r.root, r.kernels, "missing") :
            p \in {"Darwin", "Windows"},
            r \in {[root |-> "absent", kernels |-> NoKernels],
                   [root |-> "dir", kernels |-> FixtureKernels]}}

\* what a later invocation keeps of an earlier one: its command, process
\* and outcome and the host it started on
Former(l) ==
    [op |-> l.op, sys |-> l.sys, active |-> l.active, status |-> l.status,
     exc |-> l.exc, pre |-> l.pre]

NoOp ==
    [op |-> "none", sys |-> SysBase, active |-> FALSE, order |-> <<>>,
     status |-> 0, exc |-> "", out |-> <<>>, rm |-> 0, pip |-> 0,
     calls |-> <<>>, hit |-> FALSE, checked |-> {}, pre |-> host,
     prev |-> [op |-> "none", sys |-> SysBase, active |-> FALSE,
               status |-> 0, exc |-> "", pre |-> host]]

\* the invocation before the one that now begins
Earlier == IF last.op = "none" THEN last.prev ELSE Former(last)

\* no invocation runs beside another
Idle ==
    [purge |-> [pc |-> "none", queue |-> <<>>, status |-> 0, exc |-> ""],
     add |-> [pc |-> "none", status |-> 0]]

Init ==
    /\ host \in InitialHosts
    /\ last = NoOp
    /\ ops = 0
    /\ running = Idle

\* the orders in which os.listdir may enumerate the kernel root
Orders(h) ==
    LET names == IF h.root = "dir" THEN DOMAIN h.kernels ELSE {}
        n == Cardinality(names)
    IN  {f \in [1..n -> names] : \A i, j \in 1..n : f[i] = f[j] => i = j}

\* the process runs under an installed, executable interpreter
Runs(p) == host.files[p.sys.executable] = "exec"

\* the invocation of op by process p, which listed the kernel root in that
\* order and ended in m, becomes the latest one
Invoke(op, p, order, m) ==
    /\ ops < MaxOps
    /\ ops' = ops + 1
    /\ UNCHANGED running
    /\ host' = m.host
    /\ last' = [op |-> op, sys |-> p.sys, active |-> _in_virtual_environment(p),
                order |-> order, status |-> ExitStatus(m.st),
                exc |-> IF m.st.k = "raise" THEN m.st.exc ELSE "",
                out |-> m.out, rm |-> m.rm, pip |-> m.pip, calls |-> m.calls,
                hit |-> m.hit, checked |-> m.checked, pre |-> host,
                prev |-> Earlier]

Add ==
    \E p \in Processes, fault \in WriteFaults :
        LET c == Context(p, FALSE, fault, <<>>)
        IN  Runs(p) /\ Invoke("add", p, <<>>, add_active_environment(Start(host), c))

Remove ==
    \E p \in Processes, fault \in {"none", "rm1"} :
        LET c == Context(p, FALSE, fault, <<>>)
        IN  Runs(p) /\ Invoke("remove", p, <<>>, remove_active_environment(Start(host), c))

Purge ==
    \E p \in Processes, fault \in RemoveFaults, order \in Orders(host) :
        LET c == Context(p, FALSE, fault, order)
        IN  Runs(p) /\ Invoke("purge", p, <<>>, purge_broken_kernels(Start(host), c))

Initialize ==
    \E p \in Processes, jcore \in BOOLEAN, fault \in Faults :
        LET c == Context(p, jcore, fault, <<>>)
        IN  /\ Runs(p)
            /\ Invoke("initialize", p, <<>>,
                      initialize_new_notebook_environment(Start(host), c))

Show ==
    \E p \in Processes, order \in Orders(host) :
        LET c == Context(p, FALSE, "none", order)
        IN  Runs(p) /\ Invoke("show", p, order, show_kernels(Start(host), c))

\* between invocations an interpreter is uninstalled, or the system
\* interpreter loses its executable bit
BreakInterpreter ==
    \E f \in {BaseExe, VenvExe}, s \in {"missing", "file"} :
        /\ ops < MaxOps
        /\ host.files[f] = "exec"
        /\ s = "file" => f = BaseExe
        /\ host' = [host EXCEPT !.files[f] = s]
        /\ last' = [NoOp EXCEPT !.pre = host', !.prev = Earlier]
        /\ UNCHANGED <<ops, running>>

Next ==
    \/ Add
    \/ Remove
    \/ Purge
    \/ Initialize
    \/ Show
    \/ BreakInterpreter

Spec == Init /\ [][Next]_vars

(***************************************************************************)
(* The derivation of the kernel name alone, over the names a directory of  *)
(* a virtual environment may have.                                         *)
(***************************************************************************)
MaxNameLen == 2

\* characters of directory names: of each class of the pattern, a blank,
\* a line feed and the Kelvin sign
NameAlphabet == {"a", "Z", "7", ".", "_", "-", " ", "\n", "U+212A"}

RECURSIVE Names(_)
Names(n) ==
    IF n = 0 THEN {<<>>}
    ELSE Names(n - 1) \cup {Append(t, ch) : t \in Names(n - 1), ch \in NameAlphabet}

\* the directory the virtual environments are made in
VenvHome == <<"/", "v", "/">>

\* the one call of _get_kernel_name of a run, by the interpreter of a virtual
\* environment in a directory of that name (the empty name: sys.prefix
\* ends with the separator)
DeriveName ==
    \E name \in Names(MaxNameLen) :
        LET s == [SysVenv EXCEPT !.prefix = VenvHome \o name]
            p == [sys |-> s, CONDA_PREFIX |-> EnvUnset, VIRTUAL_ENV |-> EnvUnset]
        IN  /\ last' = [name |-> _get_kernel_name(
                                   Start(host), Context(p, FALSE, "none", <<>>)).name] @@
                        [NoOp EXCEPT
                           !.op = "name", !.sys = s, !.active = TRUE,
                           !.status = ExitStatus(_get_kernel_name(
                                         Start(host),
                                         Context(p, FALSE, "none", <<>>)).m.st)]
            /\ ops = 0 /\ ops' = 1
            /\ UNCHANGED running
            /\ UNCHANGED host

NextName == DeriveName

SpecName == Init /\ [][NextName]_vars

(***************************************************************************)
(* The path resolver alone, over the names platform.system returns and the *)
(* sub-paths the program asks for.                                         *)
(***************************************************************************)
\* platform.system(): also "Java" and, where it cannot tell, ""
SystemNames == Platforms \cup {"Java", ""}

\* the arguments of the calls of _get_data_path: none, "kernels", and
\* "kernels" with the name of a kernel
Subdirs ==
    {<<>>, <<TxtKernels>>, <<TxtKernels, Basename(VenvPrefix)>>,
     <<TxtKernels, TxtPython \o <<DigitOf(SysBase.major)>>>>}

\* the one call of _get_data_path of a run, on the host as a machine of
\* that system
Resolve ==
    \E system \in SystemNames, subdirs \in Subdirs :
        /\ last' = [system |-> system, subdirs |-> subdirs,
                    path |-> _get_data_path(
                                Start([host EXCEPT !.platform = system]),
                                subdirs).path] @@
                   [NoOp EXCEPT
                      !.op = "path",
                      !.status = ExitStatus(_get_data_path(
                                    Start([host EXCEPT !.platform = system]),
                                    subdirs).m.st)]
        /\ ops = 0 /\ ops' = 1
            /\ UNCHANGED running
        /\ UNCHANGED host

NextPath == Resolve

SpecPath == Init /\ [][NextPath]_vars

(***************************************************************************)
(* The writer of the icons alone, for images base64.b64decode accepts or   *)
(* rejects, in the directories of the kernel root.                         *)
(***************************************************************************)
\* the one call of _write_python_logos of a run, for the directory of a
\* child of the kernel root
WriteLogos ==
    \E n \in DOMAIN host.kernels,
       decodes \in [{TxtLogo32, TxtLogo64} -> BOOLEAN],
       fault \in {"none", "open_logo32", "open_logo64"} :
        LET c == [Context([sys |-> SysVenv, CONDA_PREFIX |-> EnvUnset,
                           VIRTUAL_ENV |-> EnvUnset], FALSE, fault, <<>>)
                    EXCEPT !.decodes = decodes]
        IN  /\ LowerName(host.platform) \in DOMAIN paths_spec(host.home, <<>>)
            /\ host.root = "dir"
            /\ host.kernels[n].kind \in {"dir", "link"}
            /\ host' = _write_python_logos(Start(host), c,
                                            Join(KernelRoot(host), n)).host
            /\ last' = [name |-> n, decodes |-> decodes, fault |-> fault] @@
                        [NoOp EXCEPT
                           !.op = "logos", !.sys = SysVenv, !.active = TRUE,
                           !.status = ExitStatus(_write_python_logos(
                                         Start(host), c,
                                         Join(KernelRoot(host), n)).st)]
            /\ ops = 0 /\ ops' = 1
            /\ UNCHANGED running

NextLogos == WriteLogos

SpecLogos == Init /\ [][NextLogos]_vars

(***************************************************************************)
(* The detector alone, over every combination of its inputs.               *)
(***************************************************************************)
\* an interpreter of a virtual environment of the legacy virtualenv tool:
\* sys.real_prefix is there, and sys.base_prefix is sys.prefix or missing
SysLegacy == [prefix |-> VenvPrefix, base_prefix |-> VenvPrefix,
              executable |-> VenvExe, real_prefix |-> TRUE, major |-> 3]

DetectSystems == {SysBase, SysVenv, SysLegacy}

\* a marker variable is unset, set to the empty text or set to a text
DetectValues == {EnvUnset, EnvSet(<<>>), EnvSet(<<"x">>)}

\* the one call of _in_virtual_environment of a run: the latest invocation keeps the
\* interpreter, the marker variables and the answer
Detect ==
    \E s \in DetectSystems, conda \in DetectValues, venv \in DetectValues :
        LET p == [sys |-> s, CONDA_PREFIX |-> conda, VIRTUAL_ENV |-> venv]
        IN  /\ last' = [CONDA_PREFIX |-> conda, VIRTUAL_ENV |-> venv] @@
                        [NoOp EXCEPT !.op = "detect", !.sys = s,
                                     !.active = _in_virtual_environment(
                                                   Context(p, FALSE, "none", <<>>))]
            /\ ops = 0 /\ ops' = 1
            /\ UNCHANGED running
            /\ UNCHANGED host

NextDetect == Detect

SpecDetect == Init /\ [][NextDetect]_vars

(***************************************************************************)
(* The remover alone, for what may sit at a path: the kernel root, each of *)
(* its children, a name that is not there and the system-wide directory.   *)
(***************************************************************************)
\* a name no child of the kernel root has
MissingName == <<"z">>

\* the paths _remove_dir may be asked to remove on a host h
RemovePaths(h) ==
    {KernelRoot(h), SharedRoot}
    \cup {Join(KernelRoot(h), n) : n \in DOMAIN h.kernels \cup {MissingName}}

\* the one call of _remove_dir of a run: the latest invocation keeps the
\* path and the fault
RemoveDirectory ==
    \E fault \in {"none", "rm1"} :
        LET c == Context([sys |-> SysVenv, CONDA_PREFIX |-> EnvUnset,
                          VIRTUAL_ENV |-> EnvUnset], FALSE, fault, <<>>)
        IN  /\ LowerName(host.platform) \in DOMAIN paths_spec(host.home, <<>>)
            /\ \E path \in RemovePaths(host) :
                  /\ host' = _remove_dir(Start(host), c, path).host
                  /\ last' = [path |-> path, fault |-> fault] @@
                              [NoOp EXCEPT
                                 !.op = "rmdir", !.sys = SysVenv, !.active = TRUE,
                                 !.status = ExitStatus(
                                     _remove_dir(Start(host), c, path).st),
                                 !.exc = IF _remove_dir(Start(host), c, path).st.k
                                            = "raise"
                                         THEN _remove_dir(Start(host), c, path).st.exc
                                         ELSE "",
                                 !.rm = _remove_dir(Start(host), c, path).rm,
                                 !.hit = _remove_dir(Start(host), c, path).hit]
            /\ ops = 0 /\ ops' = 1
            /\ UNCHANGED running

NextRemove == RemoveDirectory

SpecRemove == Init /\ [][NextRemove]_vars

(***************************************************************************)
(* One purge and one add that run at the same time on the same kernel      *)
(* root.  Each step is one call of the operating system or one run of      *)
(* statements between two such calls; the steps of the two processes       *)
(* interleave in any order.  The purge is run by the system interpreter,   *)
(* the add inside the virtual environment, whose kernel is there already   *)
(* with a descriptor that is broken.                                       *)
(***************************************************************************)
RacePurger == Context([sys |-> SysBase, CONDA_PREFIX |-> EnvUnset,
                       VIRTUAL_ENV |-> EnvUnset], FALSE, "none", <<>>)
RaceAdder == Context([sys |-> SysVenv, CONDA_PREFIX |-> EnvUnset,
                      VIRTUAL_ENV |-> EnvUnset], FALSE, "none", <<>>)

\* the name and the directory of the kernel the add registers
RaceName == _get_kernel_name(Start(host), RaceAdder).name
RacePath == Join(KernelRoot(host), RaceName)

\* descriptors that make a kernel broken: no JSON, no argv, and one whose
\* interpreter is not there
BrokenSamples ==
    {TextFile(<<Tok("{")>>),
     TextFile(Dumps(JObj(<<>>))),
     TextFile(FixtureText(CwdFile))}

\* the hosts the two start on: the fixture and the broken kernel of the
\* virtual environment, a directory or a link to one
RaceHosts ==
    {HostOf("Linux", "dir",
            PutKey(FixtureKernels, Basename(VenvPrefix), e), "missing") :
        e \in {Dir(kj, NoLogos) : kj \in BrokenSamples}
               \cup {Link(kj, NoLogos) : kj \in BrokenSamples}}

InitRace ==
    /\ host \in RaceHosts
    /\ last = NoOp
    /\ ops = 0
    /\ running = [purge |-> [pc |-> "list", queue |-> <<>>, status |-> 0,
                             exc |-> ""],
                  add |-> [pc |-> "mkdir", status |-> 0]]

\* the purge has ended with the state st of its process
PurgeEnded(st) ==
    [pc |-> "done", queue |-> <<>>, status |-> ExitStatus(st),
     exc |-> IF st.k = "raise" THEN st.exc ELSE ""]

\* the step of the purge after listing, l being what _list_kernels_in gave
PurgeListedStep(l) ==
    IF l.m.st.k = "run"
    THEN [running.purge EXCEPT !.pc = "test", !.queue = l.content]
    ELSE PurgeEnded(ExitOnOSError(l.m).st)

\* purge: os.listdir of the kernel root
PurgeList ==
    /\ running.purge.pc = "list"
    /\ \E order \in Orders(host) :
          running' = [running EXCEPT !.purge =
              PurgeListedStep(_list_kernels_in(
                  Start(host), [RacePurger EXCEPT !.order = order],
                  KernelRoot(host)))]
    /\ UNCHANGED <<host, last, ops>>

\* purge: the generator tests the next item, or the loop ends
PurgeTest ==
    /\ running.purge.pc = "test"
    /\ running' = [running EXCEPT !.purge =
          IF running.purge.queue = <<>> THEN PurgeEnded(Running)
          ELSE IF IsKernel(host, KernelRoot(host), Head(running.purge.queue))
               THEN [@ EXCEPT !.pc = "check"]
          ELSE [@ EXCEPT !.queue = Tail(@)]]
    /\ UNCHANGED <<host, last, ops>>

\* the step of the purge after the try block of the validator gave r
PurgeChecked(r) ==
    IF r.exc \in CaughtAsBroken \/ (r.exc = "" /\ r.bad)
    THEN [running.purge EXCEPT !.pc = "remove"]
    ELSE IF r.exc # "" THEN PurgeEnded(Raise(r.exc))
    ELSE [running.purge EXCEPT !.pc = "test", !.queue = Tail(@)]

\* purge: the validator reads the descriptor and tests the interpreter
PurgeCheck ==
    /\ running.purge.pc = "check"
    /\ running' = [running EXCEPT !.purge =
          PurgeChecked(ReadPythonPath(
              host, Join(KernelRoot(host), Head(running.purge.queue))))]
    /\ UNCHANGED <<host, last, ops>>

\* the step of the purge after _remove_dir left its process in m
PurgeRemoved(m) ==
    IF m.st.k = "run"
    THEN [running.purge EXCEPT !.pc = "test", !.queue = Tail(@)]
    ELSE PurgeEnded(m.st)

\* purge: _remove_dir of the kernel the validator took for broken
PurgeRemove ==
    /\ running.purge.pc = "remove"
    /\ host' = _remove_dir(Start(host), RacePurger,
                           Join(KernelRoot(host),
                                Head(running.purge.queue))).host
    /\ running' = [running EXCEPT !.purge =
          PurgeRemoved(_remove_dir(Start(host), RacePurger,
                                   Join(KernelRoot(host),
                                        Head(running.purge.queue))))]
    /\ UNCHANGED <<last, ops>>

\* the step of the add after a call left its process in m
AddStepped(m, next) ==
    IF m.st.k = "run" THEN [pc |-> next, status |-> 0]
    ELSE [pc |-> "done", status |-> ExitStatus(m.st)]

\* add: _create_dir
AddMakeDir ==
    /\ running.add.pc = "mkdir"
    /\ host' = _create_dir(Start(host), RaceAdder, RacePath).host
    /\ running' = [running EXCEPT !.add =
          AddStepped(_create_dir(Start(host), RaceAdder, RacePath), "pip")]
    /\ UNCHANGED <<last, ops>>

\* add: _provide_required_packages
AddInstall ==
    /\ running.add.pc = "pip"
    /\ running' = [running EXCEPT !.add =
          AddStepped(_provide_required_packages(Start(host), RaceAdder), "open")]
    /\ UNCHANGED <<host, last, ops>>

\* the step of the add after io.open gave o
AddOpened(o) ==
    IF o.ok THEN [pc |-> "write", status |-> 0]
    ELSE [pc |-> "done", status |-> o.errno]

\* add: io.open of kernel.json for writing, which empties the file
AddOpen ==
    /\ running.add.pc = "open"
    /\ host' = OpenWrite(host, Join(RacePath, TxtKernelJson), FALSE).host
    /\ running' = [running EXCEPT !.add =
          AddOpened(OpenWrite(host, Join(RacePath, TxtKernelJson), FALSE))]
    /\ UNCHANGED <<last, ops>>

\* add: stream_out.write and the end of the with block; the text goes to
\* the file that was opened, which is under the root no more when the
\* directory was removed in between
AddWrite ==
    /\ running.add.pc = "write"
    /\ host' = IF Entry(host, RaceName).kj = TextFile(<<>>)
               THEN WriteText(host, Join(RacePath, TxtKernelJson),
                              Dumps(kernel_spec(RaceAdder)))
               ELSE host
    /\ running' = [running EXCEPT !.add = [pc |-> "logo32", status |-> 0]]
    /\ UNCHANGED <<last, ops>>

\* add: one turn of the loop of _write_python_logos
AddLogo32 ==
    /\ running.add.pc = "logo32"
    /\ host' = WriteOneLogo(Start(host), RaceAdder, RacePath, TxtLogo32).host
    /\ running' = [running EXCEPT !.add =
          AddStepped(WriteOneLogo(Start(host), RaceAdder, RacePath, TxtLogo32),
                     "logo64")]
    /\ UNCHANGED <<last, ops>>

\* add: the other turn, after which the command returns
AddLogo64 ==
    /\ running.add.pc = "logo64"
    /\ host' = WriteOneLogo(Start(host), RaceAdder, RacePath, TxtLogo64).host
    /\ running' = [running EXCEPT !.add =
          AddStepped(WriteOneLogo(Start(host), RaceAdder, RacePath, TxtLogo64),
                     "done")]
    /\ UNCHANGED <<last, ops>>

NextRace ==
    \/ PurgeList
    \/ PurgeTest
    \/ PurgeCheck
    \/ PurgeRemove
    \/ AddMakeDir
    \/ AddInstall
    \/ AddOpen
    \/ AddWrite
    \/ AddLogo32
    \/ AddLogo64

SpecRace == InitRace /\ [][NextRace]_vars

(***************************************************************************)
(* The vocabulary of the specification, stated on the filesystem alone.    *)
(***************************************************************************)
\* the platform has a kernel root
Supported(h) == h.platform \in {"Linux", "Darwin"}

\* the names of the kernel directories under the kernel root: the children
\* that are directories (or links to one) holding a file named kernel.json
KernelDirs(h) ==
    IF Supported(h) /\ h.root \in {"dir", "denied"}
    THEN {n \in DOMAIN h.kernels :
            h.kernels[n].kind \in {"dir", "link"} /\ h.kernels[n].kj.t = "file"}
    ELSE {}

\* the members of that key of a JSON object
Members(v, key) == {i \in 1..Len(v.items) : v.items[i].s = key}

\* argv is a non-empty list, the first element of which is the path of
\* an existing regular file the user may execute
LaunchesInterpreter(h, argv) ==
    /\ argv.t = "list"
    /\ argv.items # <<>>
    /\ argv.items[1].t = "str"
    /\ argv.items[1].s \in DOMAIN h.files
    /\ h.files[argv.items[1].s] = "exec"

\* doc is a parsed object that has such an argv
DescribesKernel(h, doc) ==
    /\ doc.ok
    /\ doc.v.t = "obj"
    /\ Members(doc.v, TxtArgv) # {}
    /\ LaunchesInterpreter(h,
          doc.v.items[CHOOSE i \in Members(doc.v, TxtArgv) : TRUE].items[1])

\* a kernel directory is well-formed: its descriptor is readable and parses
\* to such an object
WellFormed(h, n) ==
    /\ h.kernels[n].kj.t = "file"
    /\ h.kernels[n].kj.perm
    /\ h.kernels[n].kj.utf8
    /\ DescribesKernel(h, Loads(h.kernels[n].kj.toks))

\* the latest invocation returned: no sys.exit with a status, no exception
Succeeded == last.status = 0 /\ last.exc = ""

(***************************************************************************)
(* The claims.                                                             *)
(***************************************************************************)
\* C1: after a purge that completes successfully, every kernel directory
\* that was broken before the purge no longer exists, and every kernel
\* directory that remains under the root is well-formed.
C1_PurgeLeavesOnlyWellFormed ==
    (last.op = "purge" /\ Succeeded) =>
        /\ \A n \in KernelDirs(last.pre) :
              ~WellFormed(last.pre, n) => n \notin DOMAIN host.kernels
        /\ \A n \in KernelDirs(host) : WellFormed(host, n)

\* C2: purge leaves every well-formed kernel untouched: each kernel
\* directory that was well-formed before the purge is still there with the
\* same contents, what else is under the root is as it was, and only broken
\* kernel directories are removed.
C2_PurgeKeepsWellFormed ==
    last.op = "purge" =>
        /\ \A n \in KernelDirs(last.pre) :
              WellFormed(last.pre, n) =>
                  /\ n \in DOMAIN host.kernels
                  /\ host.kernels[n] = last.pre.kernels[n]
        /\ \A n \in DOMAIN host.kernels :
              n \in DOMAIN last.pre.kernels
              /\ host.kernels[n] = last.pre.kernels[n]
        /\ \A n \in DOMAIN last.pre.kernels \ DOMAIN host.kernels :
              n \in KernelDirs(last.pre) /\ ~WellFormed(last.pre, n)
        /\ host.root = last.pre.root
        /\ host.files = last.pre.files

\* a purge of a mix: a well-formed kernel stayed and a broken one went
C2_Witness ==
    /\ last.op = "purge"
    /\ \E n1, n2 \in KernelDirs(last.pre) :
          /\ WellFormed(last.pre, n1) /\ n1 \in DOMAIN host.kernels
          /\ ~WellFormed(last.pre, n2) /\ n2 \notin DOMAIN host.kernels

\* C3: when no environment is active, add and remove each exit with EPERM
\* before a kernel name is derived and change nothing: no kernel is
\* created, no directory is removed, no package installation is started.
C3_AddRemoveNeedActive ==
    (last.op \in {"add", "remove"} /\ ~last.active) =>
        /\ last.status = EPERM /\ last.exc = ""
        /\ last.calls = <<>>
        /\ host = last.pre
        /\ last.rm = 0 /\ last.pip = 0

\* a remove outside any environment on a host whose root holds kernels
C3_Witness ==
    /\ last.op = "remove" /\ ~last.active
    /\ KernelDirs(last.pre) # {}
    /\ last.status = EPERM

\* C4: when an environment is active, initialize exits with EPERM and
\* changes nothing: no kernel root is removed, no default kernel is created.
C4_InitializeNeedsInactive ==
    (last.op = "initialize" /\ last.active) =>
        /\ last.status = EPERM /\ last.exc = ""
        /\ last.calls = <<>>
        /\ host = last.pre
        /\ last.rm = 0 /\ last.pip = 0

\* an initialize inside an environment on a host whose root holds kernels
C4_Witness ==
    /\ last.op = "initialize" /\ last.active
    /\ KernelDirs(last.pre) # {}
    /\ last.status = EPERM

\* the name of the default kernel of the interpreter of the latest invocation
DefaultName == TxtPython \o <<DigitOf(last.sys.major)>>

DerivedName == Basename(last.sys.prefix)

\* C6: when an environment is active, remove deletes exactly the entry at
\* <kernel_root>/<derived kernel name> if it exists and leaves every other
\* entry unchanged; if nothing exists at that path it completes
\* successfully without changing the filesystem.  Stated for the runs in
\* which no removal was made to fail from outside.
C6_RemoveDeletesExactlyTheEntry ==
    (last.op = "remove" /\ last.active /\ ~last.hit /\ Supported(last.pre)) =>
        /\ Succeeded
        /\ DerivedName \notin DOMAIN host.kernels
        /\ \A n \in DOMAIN last.pre.kernels \ {DerivedName} :
              n \in DOMAIN host.kernels /\ host.kernels[n] = last.pre.kernels[n]
        /\ DOMAIN host.kernels \subseteq DOMAIN last.pre.kernels
        /\ host.root = last.pre.root
        /\ host.files = last.pre.files
        /\ DerivedName \notin DOMAIN last.pre.kernels => host = last.pre

\* the name the latest add or initialize gave to create_kernel
CreatedName == IF last.op = "add" THEN DerivedName ELSE DefaultName

\* create_kernel(name) called once more, by the process of the latest
\* invocation, on the host as it is now
CreatedAgain ==
    _create_new_kernel(Start(host),
                       Context(CHOOSE p \in Processes : p.sys = last.sys,
                               FALSE, "none", <<>>),
                       CreatedName)

\* C7: create_kernel is idempotent.  After an add or an initialize that
\* completed, and so after a create_kernel(name) that did, a second
\* create_kernel(name) is not an error and leaves the host equal to the
\* state after the first call, with one well-formed kernel directory of
\* that name.  An existing non-directory at the target path, or any other
\* failure to create the directory, is fatal: the command exits with a
\* non-zero status at _create_dir and no later step is taken.
C7_CreateKernelIdempotent ==
    /\ (last.op \in {"add", "initialize"} /\ Succeeded) =>
          /\ CreatedAgain.st = Running
          /\ CreatedAgain.host = host
          /\ CreatedName \in KernelDirs(host)
          /\ WellFormed(host, CreatedName)
    /\ (last.op = "add" /\ last.active /\ Supported(last.pre)
          /\ (\/ last.pre.root \in {"file", "denied"}
              \/ /\ DerivedName \in DOMAIN last.pre.kernels
                 /\ last.pre.kernels[DerivedName].kind \in {"file", "dangling"})) =>
          /\ last.status # 0
          /\ last.calls # <<>>
          /\ last.calls[Len(last.calls)] = "_create_dir"
          /\ last.pip = 0
          /\ host = last.pre

\* an add that completed on a host where the directory of the kernel was
\* there already, so that its create_kernel was itself a second call
C7_Witness ==
    /\ last.op = "add" /\ Succeeded
    /\ DerivedName \in KernelDirs(last.pre)
    /\ last.pre.kernels[DerivedName].kind = "dir"
    /\ host = last.pre
    /\ CreatedAgain.host = host

\* the process of the latest invocation, listing the kernel root in order
Again(order) ==
    Context(CHOOSE p \in Processes : p.sys = last.sys, FALSE, "none", order)

\* what scanning the kernel root yields when it is listed in that order
Scanned(order) ==
    Yielded(host, KernelRoot(host),
            _list_kernels_in(Start(host), Again(order), KernelRoot(host)).content)

\* the members of the descriptor of the kernel made by the latest invocation
ReadBack == Loads(host.kernels[CreatedName].kj.toks)

\* C8: round trip.  After a create_kernel(name) that completed on an empty
\* kernel root (an add on a root without children, or an initialize, which
\* empties the root first), scanning the root yields exactly one
\* KernelInfo, of that name, and its kernel.json reads back as an object
\* with the keys argv, display_name and language and no others, where
\* argv = [interpreter executable, "-m", "ipykernel_launcher", "-f",
\* "{connection_file}"], display_name = "python<major> --> <environment
\* root path>" and language = "python".
C8_DescriptorRoundTrip ==
    (/\ last.op \in {"add", "initialize"} /\ Succeeded
     /\ last.op = "add" => DOMAIN last.pre.kernels = {}) =>
        /\ \A order \in Orders(host) :
              Scanned(order) = <<[name |-> CreatedName,
                                  path |-> Join(KernelRoot(host), CreatedName)]>>
        /\ ReadBack.ok
        /\ ReadBack.v.t = "obj"
        /\ Len(ReadBack.v.items) = 3
        /\ {ReadBack.v.items[i] : i \in 1..3} =
              {JPair(<<"a", "r", "g", "v">>,
                     JList(<<JStr(last.sys.executable), JStr(<<"-", "m">>),
                             JStr(TxtLauncher), JStr(<<"-", "f">>),
                             JStr(TxtConnectionFile)>>)),
               JPair(TxtDisplayName,
                     JStr(TxtPython \o <<DigitOf(last.sys.major)>>
                          \o <<" ", "-", "-", ">", " ">> \o last.sys.prefix)),
               JPair(TxtLanguage, JStr(TxtPython))}

\* an add that completed on a kernel root that was an empty directory
C8_Witness ==
    /\ last.op = "add" /\ Succeeded
    /\ last.pre.root = "dir" /\ DOMAIN last.pre.kernels = {}
    /\ DOMAIN host.kernels = {DerivedName}
    /\ ReadBack.ok

\* the kernel directories of the host before the latest invocation, in the
\* order in which that invocation enumerated the root
RECURSIVE KernelsIn(_)
KernelsIn(order) ==
    IF order = <<>> THEN <<>>
    ELSE (IF Head(order) \in KernelDirs(last.pre) THEN <<Head(order)>> ELSE <<>>)
         \o KernelsIn(Tail(order))

\* C9: show prints exactly one line per kernel the scanner yields, each of
\* the form "kernel: <name> --> <path>", in enumeration order, whatever the
\* activation state and whether or not the kernel is broken, and it
\* changes nothing on the filesystem.
C9_ShowPrintsEachKernel ==
    last.op = "show" =>
        /\ Len(last.out) = Len(KernelsIn(last.order))
        /\ \A i \in 1..Len(last.out) :
              last.out[i] =
                  <<"k", "e", "r", "n", "e", "l", ":", " ">>
                  \o KernelsIn(last.order)[i]
                  \o <<" ", "-", "-", ">", " ">>
                  \o KernelRoot(last.pre) \o <<"/">> \o KernelsIn(last.order)[i]
        /\ host = last.pre
        /\ last.rm = 0 /\ last.pip = 0

\* a show inside an environment that printed the line of a broken kernel
\* and that of a well-formed one and left out a child that is no kernel
C9_Witness ==
    /\ last.op = "show" /\ last.active
    /\ Len(last.out) = 2
    /\ Len(last.order) = 3
    /\ \E n1, n2 \in KernelDirs(last.pre) :
          WellFormed(last.pre, n1) /\ ~WellFormed(last.pre, n2)

\* C10: when the kernel root does not exist or is not a directory, purge
\* and show each end with exit status 0, print no kernel line, remove
\* nothing and do not take the fatal error path.  Stated for the platforms
\* that have a kernel root.
C10_NoRootIsQuietSuccess ==
    (/\ last.op \in {"purge", "show"}
     /\ Supported(last.pre)
     /\ last.pre.root \in {"absent", "file"}) =>
        /\ last.status = 0 /\ last.exc = ""
        /\ last.out = <<>>
        /\ last.rm = 0
        /\ host = last.pre

\* a purge where a regular file is in the place of the kernel root
C10_Witness ==
    /\ last.op = "purge"
    /\ Supported(last.pre)
    /\ last.pre.root = "file"
    /\ last.status = 0

\* the latest invocation ran in the activation state its command requires
GateOpen ==
    CASE last.op \in {"add", "remove"} -> last.active
      [] last.op = "initialize" -> ~last.active
      [] OTHER -> TRUE

\* the function the latest invocation entered last
LastCall == IF last.calls = <<>> THEN "" ELSE last.calls[Len(last.calls)]

\* C11: every fatal termination exits with the OS error number of the
\* causing error when there is one and otherwise with EPERM: the wrong
\* activation state, an unsupported platform and a failed installation
\* give EPERM; a kernel root that cannot be listed makes purge and show
\* exit with the errno of os.listdir (EACCES); a file that cannot be
\* opened or a directory that cannot be made or removed gives the errno
\* of that call.  Exit status 0 comes only from a command that did its
\* work (for remove: the entry is gone, or glob.glob matched nothing and
\* no removal was tried) and from purge and show on a root that is absent
\* or no directory, never from a failure.  Stated for the invocations that
\* end by return or sys.exit.
C11_FatalExitStatus ==
    (last.op # "none" /\ last.exc = "") =>
        /\ ~GateOpen => last.status = EPERM
        /\ (GateOpen /\ ~Supported(last.pre) /\ ~last.hit) => last.status = EPERM
        /\ (last.hit /\ LastCall = "_provide_required_packages") =>
              last.status = EPERM
        /\ (last.hit /\ LastCall # "_provide_required_packages") =>
              last.status = EACCES
        /\ (last.op \in {"purge", "show"} /\ Supported(last.pre)
              /\ last.pre.root = "denied") => last.status = EACCES
        /\ (last.op \in {"add", "initialize"} /\ GateOpen /\ Supported(last.pre)
              /\ ~last.hit /\ last.pre.root = "file") => last.status = ENOTDIR
        /\ (last.op = "add" /\ GateOpen /\ Supported(last.pre)
              /\ last.pre.root = "dir"
              /\ DerivedName \in DOMAIN last.pre.kernels
              /\ last.pre.kernels[DerivedName].kind \in {"file", "dangling"}) =>
              last.status = EEXIST
        /\ last.status = 0 =>
              /\ GateOpen /\ Supported(last.pre) /\ ~last.hit
              /\ last.op \in {"purge", "show"} => last.pre.root # "denied"
              /\ last.op \in {"add", "initialize"} =>
                    CreatedName \in KernelDirs(host) /\ WellFormed(host, CreatedName)
              /\ last.op = "remove" =>
                    \/ DerivedName \notin DOMAIN host.kernels
                    \/ last.rm = 0 /\ host = last.pre

\* a purge that could not list the kernel root and left with EACCES
C11_Witness ==
    /\ last.op = "purge"
    /\ Supported(last.pre) /\ last.pre.root = "denied"
    /\ last.status = EACCES

\* the marker variable is set to a non-empty text
SetNonEmpty(v) == v.isset /\ v.val # <<>>

\* C12 as stated: the detector answers true iff at least one of the three
\* signals holds (CONDA_PREFIX set non-empty, VIRTUAL_ENV set non-empty,
\* the base prefix of the interpreter differs from its prefix), and it has
\* no side effects.
C12_ThreeSignals ==
    last.op = "detect" =>
        /\ last.active <=> \/ SetNonEmpty(last.CONDA_PREFIX)
                           \/ SetNonEmpty(last.VIRTUAL_ENV)
                           \/ last.sys.base_prefix # last.sys.prefix
        /\ host = last.pre

\* C12, amended: the detector answers true iff at least one of four
\* signals holds: CONDA_PREFIX set non-empty, VIRTUAL_ENV set non-empty,
\* the base prefix of the interpreter differs from its prefix, or the
\* interpreter has the attribute real_prefix of the legacy virtualenv
\* tool; it answers false iff none holds, and it has no side effects.
C12_FourSignals ==
    last.op = "detect" =>
        /\ last.active <=> \/ SetNonEmpty(last.CONDA_PREFIX)
                           \/ SetNonEmpty(last.VIRTUAL_ENV)
                           \/ last.sys.base_prefix # last.sys.prefix
                           \/ last.sys.real_prefix
        /\ host = last.pre

\* the interpreter of a legacy virtualenv, run without marker variables
\* (one empty, one unset), is found active
C12_Witness ==
    /\ last.op = "detect"
    /\ last.sys.real_prefix /\ last.sys.base_prefix = last.sys.prefix
    /\ last.CONDA_PREFIX = EnvSet(<<>>) /\ last.VIRTUAL_ENV = EnvUnset
    /\ last.active

\* the characters a kernel name may be made of
NameCharacters ==
    {"a", "b", "c", "d", "e", "f", "g", "h", "i", "j", "k", "l", "m", "n", "o",
     "p", "q", "r", "s", "t", "u", "v", "w", "x", "y", "z",
     "A", "B", "C", "D", "E", "F", "G", "H", "I", "J", "K", "L", "M", "N", "O",
     "P", "Q", "R", "S", "T", "U", "V", "W", "X", "Y", "Z",
     "0", "1", "2", "3", "4", "5", "6", "7", "8", "9", ".", "_", "-"}

\* the name of the directory of the interpreter of the latest invocation
GivenName == SubSeq(last.sys.prefix, Len(VenvHome) + 1, Len(last.sys.prefix))

\* C13: kernel-name validation accepts every text of one or more
\* characters from letters, digits, ".", "_" and "-", and rejects with a
\* fatal EPERM exit every text that has a character outside that set, and
\* the empty text.
C13_NameValidation ==
    last.op = "name" =>
        IF GivenName # <<>>
           /\ \A i \in 1..Len(GivenName) : GivenName[i] \in NameCharacters
        THEN last.status = 0 /\ last.name = GivenName
        ELSE last.status = EPERM

\* the components of a sub-path after a directory, each behind a separator
RECURSIVE Under(_, _)
Under(dir, subdirs) ==
    IF subdirs = <<>> THEN dir
    ELSE Under(dir \o <<"/">> \o Head(subdirs), Tail(subdirs))

\* C14: data_root(*subpath) is a function of the OS family alone: on
\* macOS it is ~/Library/Jupyter joined with the sub-path, on Linux
\* ~/.local/share/jupyter joined with the sub-path, and on any other OS
\* family, the empty name included, it gives no path and ends the process
\* with EPERM.
C14_DataPathByPlatform ==
    last.op = "path" =>
        CASE last.system = "Darwin" ->
               /\ last.status = 0
               /\ last.path =
                     Under(host.home \o <<"/", "L", "i", "b", "r", "a", "r", "y", "/",
                                        "J", "u", "p", "y", "t", "e", "r">>,
                           last.subdirs)
          [] last.system = "Linux" ->
               /\ last.status = 0
               /\ last.path =
                     Under(host.home \o <<"/", ".", "l", "o", "c", "a", "l", "/",
                                        "s", "h", "a", "r", "e", "/",
                                        "j", "u", "p", "y", "t", "e", "r">>,
                           last.subdirs)
          [] OTHER -> last.status = EPERM /\ last.path = <<>>

\* the path of a kernel on macOS
C14_Witness ==
    /\ last.op = "path"
    /\ last.system = "Darwin" /\ Len(last.subdirs) = 2
    /\ last.status = 0 /\ last.path # <<>>

\* C15: the kernel validator never throws: whatever the state of the
\* descriptor of a kernel (missing, unreadable, no valid JSON, JSON of any
\* shape, argv absent, empty or no list, argv[0] of any value), the check
\* returns, and a purge never ends with an exception that escapes it.
C15_ValidatorNeverThrows ==
    last.op = "purge" => last.exc = ""

\* C16: during a purge the check and removal of a kernel is independent
\* of its siblings: whatever happens while one kernel is checked or
\* removed, every kernel that was under the root when the purge started
\* is checked.
C16_PurgeChecksEverySibling ==
    (last.op = "purge" /\ Supported(last.pre) /\ last.pre.root = "dir") =>
        KernelDirs(last.pre) \subseteq last.checked

\* the kernel directories of a host in the order of a listing of its root
RECURSIVE KernelsOf(_, _)
KernelsOf(h, order) ==
    IF order = <<>> THEN <<>>
    ELSE (IF Head(order) \in KernelDirs(h) THEN <<Head(order)>> ELSE <<>>)
         \o KernelsOf(h, Tail(order))

\* C17: scanning the kernel root yields exactly one KernelInfo for each
\* child of the root that is a directory holding a file named kernel.json,
\* with the name of the child and the root joined with it as the path, in
\* the order of the listing, and nothing for any other child (a regular
\* file, a directory without kernel.json, a directory where kernel.json
\* is a directory); the sequence is finite, and every scan lists the root
\* as it is then, whatever was scanned or changed before.
C17_ScanYieldsKernelDirs ==
    Supported(host) =>
        \A order \in Orders(host) :
            /\ Len(Scanned(order)) = Len(KernelsOf(host, order))
            /\ \A i \in 1..Len(Scanned(order)) :
                  Scanned(order)[i] =
                      [name |-> KernelsOf(host, order)[i],
                       path |-> KernelRoot(host) \o <<"/">>
                                \o KernelsOf(host, order)[i]]

\* a root that was changed by the latest invocation and holds a kernel
\* next to a directory whose kernel.json is a directory
C17_Witness ==
    /\ Supported(host) /\ host.root = "dir"
    /\ last.op \in {"add", "purge"} /\ host # last.pre
    /\ \E n \in DOMAIN host.kernels :
          host.kernels[n].kind = "dir" /\ host.kernels[n].kj.t = "dir"
    /\ \A order \in Orders(host) :
          Len(Scanned(order)) \in 1..(Len(order) - 1)

\* the steps of create_kernel in their order
CreateSteps ==
    <<"_create_dir", "_provide_required_packages",
      "_write_kernel_specification", "_write_python_logos">>

\* the steps of create_kernel the latest invocation entered
StepsTaken ==
    SelectSeq(last.calls, LAMBDA f : \E i \in 1..Len(CreateSteps) : CreateSteps[i] = f)

\* what was at the place of the kernel when create_kernel began: what
\* the host held there, or nothing after the wipe of an initialize
Before ==
    IF last.op = "add" /\ CreatedName \in DOMAIN last.pre.kernels
    THEN last.pre.kernels[CreatedName]
    ELSE Dir(NoFile, NoLogos)

\* C18: create_kernel takes its steps strictly in the order ensure
\* directory, install dependency, write descriptor, write icons; when a
\* step fails no later step is taken and nothing done by earlier steps is
\* rolled back.  So a failed installation exits with EPERM and leaves the
\* kernel directory in place with neither descriptor nor icon written by
\* that call, a failure to open the descriptor leaves the directory and
\* the installation done, and a failure at the icons leaves the written
\* descriptor.
C18_CreateStepsInOrder ==
    (last.op \in {"add", "initialize"} /\ last.exc = "") =>
        /\ StepsTaken = SubSeq(CreateSteps, 1, Len(StepsTaken))
        /\ (last.status = 0 /\ GateOpen) => StepsTaken = CreateSteps
        /\ (last.status # 0 /\ Len(StepsTaken) >= 2) =>
              /\ CreatedName \in DOMAIN host.kernels
              /\ host.kernels[CreatedName].kind = Before.kind
              /\ last.pip = 1
        /\ (last.status # 0 /\ Len(StepsTaken) = 2) =>
              /\ last.status = EPERM
              /\ host.kernels[CreatedName] = Before
        /\ (last.status # 0 /\ Len(StepsTaken) = 3) =>
              /\ host.kernels[CreatedName].kj = Before.kj
              /\ host.kernels[CreatedName].logos = Before.logos
        /\ (last.status # 0 /\ Len(StepsTaken) = 4) =>
              /\ WellFormed(host, CreatedName)
              /\ host.kernels[CreatedName].kj.toks = Dumps(kernel_spec(Again(<<>>)))

\* an add into a new directory whose installation failed: the directory
\* is there, empty
C18_Witness ==
    /\ last.op = "add" /\ last.status = EPERM
    /\ StepsTaken = SubSeq(CreateSteps, 1, 2)
    /\ DerivedName \notin DOMAIN last.pre.kernels
    /\ DerivedName \in DOMAIN host.kernels
    /\ host.kernels[DerivedName] = Dir(NoFile, NoLogos)

\* the icons of the kernel the latest invocation wrote to, before and after
IconsBefore == last.pre.kernels[last.name].logos
IconsAfter == host.kernels[last.name].logos

C20_DescriptorNeverMutated ==
    (last.op \in {"add", "remove", "purge", "initialize"} /\ last.rm = 0) =>
        \A n \in DOMAIN last.pre.kernels \cap DOMAIN host.kernels :
            last.pre.kernels[n].kj.t = "file" =>
                host.kernels[n].kj = last.pre.kernels[n].kj

\* what sits at the path the remover was given, before the call: "link" or
\* "dangling" for a symbolic link, "dir" for a directory the user may
\* change, and anything else for what cannot be removed as a tree
ThingAt ==
    IF last.path = KernelRoot(last.pre) THEN last.pre.root
    ELSE IF last.path = SharedRoot THEN last.pre.shared
    ELSE Entry(last.pre, Basename(last.path)).kind

\* the directory a link of the kernel root points to, with its content
TargetOf(e) == [kj |-> e.kj, logos |-> e.logos]

\* C21: remove_directory(path) on a symbolic link removes only the link and
\* leaves the directory the link points to and all its contents intact; on
\* anything else it deletes the whole tree; any failure of either is fatal
\* with the errno of the error.
C21_RemoveDirectory ==
    last.op = "rmdir" =>
        /\ last.exc = ""
        /\ host.files = last.pre.files
        /\ host.platform = last.pre.platform
        /\ last.pre.targets \subseteq host.targets
        /\ (ThingAt \in {"link", "dangling"} /\ last.fault = "none") =>
              /\ last.status = 0
              /\ host.root = last.pre.root
              /\ host.shared = last.pre.shared
              /\ DOMAIN host.kernels
                    = DOMAIN last.pre.kernels \ {Basename(last.path)}
              /\ \A n \in DOMAIN host.kernels :
                    host.kernels[n] = last.pre.kernels[n]
              /\ ThingAt = "link" =>
                    TargetOf(last.pre.kernels[Basename(last.path)]) \in host.targets
        /\ (ThingAt = "dir" /\ last.fault = "none") =>
              /\ last.status = 0
              /\ CASE last.path = KernelRoot(last.pre) ->
                        /\ host.root = "absent"
                        /\ host.kernels = NoKernels
                        /\ host.shared = last.pre.shared
                        /\ \A n \in DOMAIN last.pre.kernels :
                              last.pre.kernels[n].kind = "link" =>
                                 TargetOf(last.pre.kernels[n]) \in host.targets
                   [] last.path = SharedRoot ->
                        /\ host.shared = "absent"
                        /\ host.root = last.pre.root
                        /\ host.kernels = last.pre.kernels
                   [] OTHER ->
                        /\ host.root = last.pre.root
                        /\ host.shared = last.pre.shared
                        /\ DOMAIN host.kernels
                              = DOMAIN last.pre.kernels \ {Basename(last.path)}
                        /\ \A n \in DOMAIN host.kernels :
                              host.kernels[n] = last.pre.kernels[n]
                        /\ host.targets = last.pre.targets
        /\ (ThingAt \notin {"link", "dangling", "dir"} \/ last.fault # "none") =>
              /\ last.status \in {ENOENT, ENOTDIR, EACCES}
              /\ host = last.pre

\* a link to a kernel directory was removed: the link is gone and the
\* directory it pointed to is kept with its descriptor
C21_Witness ==
    /\ last.op = "rmdir" /\ last.status = 0
    /\ ThingAt = "link"
    /\ Basename(last.path) \notin DOMAIN host.kernels
    /\ \E d \in host.targets : d.kj.t = "file"

\* the invocation before the latest one was an add or an initialize that
\* completed
RegisteredBefore ==
    /\ last.prev.op \in {"add", "initialize"}
    /\ last.prev.status = 0 /\ last.prev.exc = ""

\* the name of the kernel that invocation registered
RegisteredName ==
    IF last.prev.op = "add" THEN Basename(last.prev.sys.prefix)
    ELSE TxtPython \o <<DigitOf(last.prev.sys.major)>>

\* the kernel directories of h whose descriptor is the text add writes
\* for an interpreter that is, on h, an executable regular file
AsRegistered(h) ==
    {n \in KernelDirs(h) :
        \E p \in Processes :
            /\ h.files[p.sys.executable] = "exec"
            /\ h.kernels[n].kj =
                  TextFile(Dumps(kernel_spec(Context(p, FALSE, "none", <<>>))))}

\* C22: a kernel registered by an add or an initialize that completed
\* survives purge: as long as the interpreter that performed the
\* registration is still an executable file, a purge leaves the kernel
\* directory and its descriptor in place, because the descriptor add
\* writes is well-formed for the validator.  Purge changes neither that
\* descriptor nor the interpreter, so the same holds for the next purge.
C22_RegisteredSurvivesPurge ==
    last.op = "purge" =>
        /\ (RegisteredBefore
              /\ last.pre.files[last.prev.sys.executable] = "exec") =>
              /\ RegisteredName \in AsRegistered(last.pre)
              /\ RegisteredName \in DOMAIN host.kernels
              /\ host.kernels[RegisteredName] = last.pre.kernels[RegisteredName]
              /\ WellFormed(host, RegisteredName)
        /\ \A n \in AsRegistered(last.pre) :
              /\ n \in DOMAIN host.kernels
              /\ host.kernels[n] = last.pre.kernels[n]
              /\ n \in AsRegistered(host)
        /\ host.files = last.pre.files

\* a purge after an add that completed, which removed a broken kernel and
\* kept the one the add registered
C22_Witness ==
    /\ last.op = "purge" /\ last.rm > 0 /\ Succeeded
    /\ RegisteredBefore /\ last.prev.op = "add"
    /\ last.pre.files[last.prev.sys.executable] = "exec"
    /\ RegisteredName \in KernelDirs(host)
    /\ DOMAIN host.kernels # DOMAIN last.pre.kernels

\* the latest invocation is a remove that completed, the one before it an
\* add that completed, both run by the interpreter of the same environment
RemoveAfterAdd ==
    /\ last.op = "remove" /\ Succeeded
    /\ last.prev.op = "add"
    /\ last.prev.status = 0 /\ last.prev.exc = ""
    /\ last.prev.sys = last.sys

\* the host on which the add began
BeforeAdd == last.prev.pre

\* the children of the kernel root of a host other than that of one name
OtherChildren(h, name) == [n \in DOMAIN h.kernels \ {name} |-> h.kernels[n]]

\* C23: an add followed by a remove in the same active environment is a
\* round trip on the set of registered kernels.  Both derive the same
\* name from the prefix of the interpreter, so the remove deletes exactly
\* the directory the add made or filled; every other kernel is unchanged;
\* and when no kernel of that name was registered before the add, the
\* scanner yields after the remove the kernels it yielded before the add.
C23_AddRemoveRoundTrip ==
    RemoveAfterAdd =>
        /\ last.active /\ last.prev.active
        /\ DerivedName \in KernelDirs(last.pre)
        /\ last.rm = 1
        /\ DerivedName \notin DOMAIN host.kernels
        /\ OtherChildren(host, DerivedName) = OtherChildren(last.pre, DerivedName)
        /\ OtherChildren(host, DerivedName) = OtherChildren(BeforeAdd, DerivedName)
        /\ DerivedName \notin KernelDirs(BeforeAdd) =>
              /\ KernelDirs(host) = KernelDirs(BeforeAdd)
              /\ \A n \in KernelDirs(host) : host.kernels[n] = BeforeAdd.kernels[n]
              /\ host.root = "dir"
              /\ \A order \in Orders(host) :
                    Scanned(order) =
                        Yielded(BeforeAdd, KernelRoot(BeforeAdd), order)

\* the two invocations that ran at once have both ended
BothEnded == running.purge.pc = "done" /\ running.add.pc = "done"

\* this step is the purge deleting the child of that name from the root
PurgeDeletes(n) ==
    /\ running.purge.pc = "remove"
    /\ n \in DOMAIN host.kernels
    /\ n \notin DOMAIN host'.kernels

\* C24: the check-then-remove of purge is safe against an add that runs at
\* the same time on the same kernel root and registers again a kernel that
\* is there and broken: under every interleaving purge never deletes a
\* kernel directory whose descriptor is well-formed at the moment of the
\* deletion, and an add that exits with status 0 leaves its kernel
\* registered once both have ended.
C24_RaceIsSafe ==
    /\ [][\A n \in DOMAIN host.kernels :
            PurgeDeletes(n) => ~WellFormed(host, n)]_vars
    /\ []((BothEnded /\ running.add.status = 0) =>
            (RaceName \in KernelDirs(host) /\ WellFormed(host, RaceName)))

\* the directories under the kernel root of h that hold no kernel.json
Bare(h) ==
    IF Supported(h) /\ h.root = "dir"
    THEN {n \in DOMAIN h.kernels :
            h.kernels[n].kind \in {"dir", "link"} /\ h.kernels[n].kj.t = "none"}
    ELSE {}

\* the line show prints for a kernel of that name
LineOf(n) ==
    <<"k", "e", "r", "n", "e", "l", ":", " ">> \o n
    \o <<" ", "-", "-", ">", " ">> \o KernelRoot(last.pre) \o <<"/">> \o n

\* that directory is after the latest invocation as it was before it
Persists(n) ==
    /\ n \in Bare(host)
    /\ host.kernels[n] = last.pre.kernels[n]

\* the latest invocation is an add or a remove for the kernel of that name
ForName(n) == last.active /\ DerivedName = n

\* what holds for a directory without kernel.json whatever the re-add
InvisibleToScanner(n) ==
    /\ last.op = "show" =>
          /\ Persists(n)
          /\ \A i \in 1..Len(last.out) : last.out[i] # LineOf(n)
    /\ last.op = "purge" => Persists(n) /\ n \notin last.checked
    /\ (last.op \in {"add", "remove"} /\ ~ForName(n)) => Persists(n)
    /\ last.op = "none" => Persists(n)

\* C25 as stated: a directory under the kernel root without kernel.json is
\* invisible to the scanner; it is never listed by show and never removed
\* by purge, and it persists until a remove in the environment of the
\* same name, a successful add of that name or an initialize deletes or
\* completes it.
C25_BareDirectoryPersists ==
    \A n \in Bare(last.pre) :
        /\ InvisibleToScanner(n)
        /\ (last.op = "add" /\ ForName(n) /\ ~Succeeded) => Persists(n)

\* C25 as the code has it: the directory persists until a remove in the
\* environment of the same name, an add of that name that gets as far as
\* writing the descriptor, successful or not, or an initialize.
C25_BareDirectoryPersistsUntilWritten ==
    \A n \in Bare(last.pre) :
        /\ InvisibleToScanner(n)
        /\ (last.op = "add" /\ ForName(n)
              /\ \A i \in 1..Len(last.calls) :
                    last.calls[i] # "_write_kernel_specification") =>
              Persists(n)
        /\ (last.op = "add" /\ ForName(n) /\ Succeeded) =>
              n \in KernelDirs(host) /\ WellFormed(host, n)

\* a purge after an add whose installation failed: the directory the add
\* left is under the root, still without descriptor, and was not checked
C25_Witness ==
    /\ last.op = "purge"
    /\ last.prev.op = "add" /\ last.prev.status = EPERM /\ last.prev.active
    /\ Basename(last.prev.sys.prefix) \notin DOMAIN last.prev.pre.kernels
    /\ Basename(last.prev.sys.prefix) \in Bare(last.pre)
    /\ Basename(last.prev.sys.prefix) \in Bare(host)
    /\ last.checked # {}
====
